---- MODULE Spec2Model ----
(***************************************************************************)
(* Oriented-rectangle overlap detection of overlapcheck.py:                *)
(*   create_rectangle  the four corners of an asymmetric rectangle         *)
(*   overlap           the exact tester (polygon intersection)             *)
(*   is_overlap        the corner-containment heuristic                    *)
(*                                                                         *)
(*   caller            the scenario generator and its classification loop  *)
(*   plot_all_rectangles, __main__   the rendering and the report loops    *)
(*                                                                         *)
(* Numbers.  The code computes in floating point with math.cos/math.sin.   *)
(* The model computes the same expressions exactly, in the ring Z[sqrt 2]: *)
(* a number is a pair <<p, q>> standing for p + q*sqrt(2).  Centers and    *)
(* extents are given in half units (the integer n is n/2), headings in     *)
(* degrees on the generator's 45 degree raster, where 2*cos and 2*sin are  *)
(* in {0, +-sqrt 2, +-2}.  One rotation therefore yields quarter units and *)
(* two rotations eighth units; every comparison is made between values of  *)
(* the same unit.  The operators do not depend on the unit chosen.         *)
(* The generator also uses headings 10, 20 and 30 degrees off the raster;  *)
(* there 2*cos is not in Z[sqrt 2], and the model takes the element        *)
(* p + q*sqrt(2) with |q| <= 500 nearest to it (error below 0.0006), as    *)
(* math.cos returns the nearest double.  The generator's lengths are given *)
(* in tenths.                                                              *)
(*                                                                         *)
(* Polygon.intersects is a library call; it is modelled by its meaning on  *)
(* simple polygons: the boundaries meet or one region holds a vertex of    *)
(* the other.                                                              *)
(*                                                                         *)
(* Two state machines share the functions.  Spec takes a pair of           *)
(* rectangles (cx, cy, heading, lf, wl, lr, wr) from a bounded set,        *)
(* negative extents included, and applies the functions to it one call     *)
(* after the other, keeping each result.  SpecMain is the program itself:  *)
(* caller builds test_cases and results, plot_all_rectangles and the       *)
(* report loop of __main__ walk the results inside the window              *)
(* [startId, stopId].                                                      *)
(*                                                                         *)
(* SpecNonNegative is Spec restricted to rectangles whose extents are all  *)
(* non-negative.  SpecDouble applies is_overlap as the machine computes    *)
(* it, in binary64: for headings that are multiples of 90 degrees a double *)
(* is a multiple k of 1/2 plus an error e counted in units far below the   *)
(* last bit, math.cos and math.sin return the doubles they return for      *)
(* deg2rad of these headings, and every sum and product is rounded to the  *)
(* nearest double, ties to even.  It classifies a pair, then the pair      *)
(* moved by a vector or with one rectangle replaced by its half-turned     *)
(* twin.                                                                   *)
(***************************************************************************)
EXTENDS Integers, Sequences, FiniteSets, TLC

VARIABLES a, b, pc, rect1, rect2, exact, heur, heurSwap, heurSelf, b2, heurBig

\* the pair moved or turned, and the result of is_overlap for it
VARIABLES twin, heurTwin

\* the program: the place reached, caller's locals, the two lists, the
\* window, standard output, the figure and the file written from it, the
\* corners is_overlap examined in its last call, and the count of caller's
\* runs with the value the earlier run returned
VARIABLES at, rx, ad, fac, n1, n2, idx, test_cases, results, startId, stopId, out, drawn, html, tested, run, first

vars == <<a, b, pc, rect1, rect2, exact, heur, heurSwap, heurSelf, b2, heurBig, twin, heurTwin, at, rx, ad, fac, n1, n2, idx, test_cases, results, startId, stopId, out, drawn, html, tested, run, first>>

\* the state of the program, left alone while a pair is classified
program == <<at, rx, ad, fac, n1, n2, idx, test_cases, results, startId, stopId, out, drawn, html, tested, run, first>>

---------------------------------------------------------------------------
(* Exact arithmetic on p + q*sqrt(2).                                      *)

Z(n) == <<n, 0>>

Add(u, v) == <<u[1] + v[1], u[2] + v[2]>>

Sub(u, v) == <<u[1] - v[1], u[2] - v[2]>>

Mul(u, v) == <<u[1] * v[1] + 2 * u[2] * v[2], u[1] * v[2] + u[2] * v[1]>>

Scale(k, u) == <<k * u[1], k * u[2]>>

RECURSIVE RootTwoLess(_, _)
\* q*sqrt(2) < p for naturals p, q, decided without squaring: with
\* q < p < 2q it is  q < (p - q)*(sqrt(2) + 1), that is  NOT (p-q)*sqrt(2) < 2q-p
RootTwoLess(q, p) ==
    IF p <= q THEN FALSE
    ELSE IF p >= 2 * q THEN TRUE
    ELSE ~RootTwoLess(p - q, 2 * q - p)

Abs(n) == IF n < 0 THEN -n ELSE n

\* the sign of p + q*sqrt(2): -1, 0 or 1
Sgn(u) ==
    LET p == u[1]
        q == u[2]
    IN  IF p = 0 /\ q = 0 THEN 0
        ELSE IF p >= 0 /\ q >= 0 THEN 1
        ELSE IF p <= 0 /\ q <= 0 THEN -1
        ELSE IF p > 0 THEN (IF RootTwoLess(Abs(q), p) THEN 1 ELSE -1)
        ELSE (IF RootTwoLess(q, Abs(p)) THEN -1 ELSE 1)

Leq(u, v) == Sgn(Sub(v, u)) >= 0

Less(u, v) == Sgn(Sub(v, u)) > 0

\* the heading reduced to 0..359 degrees
Norm(t) == (t + 720) % 360

\* 2*cos(m) for the headings 0 < m < 90 off the 45 degree raster that the
\* generator's sweep reaches: the nearest p + q*sqrt(2) with |q| <= 500
\* (2*cos(60) = 1 is exact)
Cos2Near(m) ==
    CASE m = 10 -> <<-592, 420>>
      [] m = 15 -> <<347, -244>>
      [] m = 20 -> <<-404, 287>>
      [] m = 25 -> <<518, -365>>
      [] m = 30 -> <<-489, 347>>
      [] m = 35 -> <<-639, 453>>
      [] m = 55 -> <<86, -60>>
      [] m = 60 -> <<1, 0>>
      [] m = 65 -> <<-521, 369>>
      [] m = 70 -> <<251, -177>>
      [] m = 75 -> <<347, -245>>
      [] m = 80 -> <<-472, 334>>

\* 2*cos(t) and 2*sin(t): exact for t a multiple of 45 degrees, elsewhere
\* the nearest value, by cos(360 - m) = cos(m) and cos(180 - m) = -cos(m)
Cos2(t) ==
    LET m == Norm(t)
    IN  CASE m = 0 -> <<2, 0>>
          [] m = 45 -> <<0, 1>>
          [] m = 90 -> <<0, 0>>
          [] m = 135 -> <<0, -1>>
          [] m = 180 -> <<-2, 0>>
          [] m = 225 -> <<0, -1>>
          [] m = 270 -> <<0, 0>>
          [] m = 315 -> <<0, 1>>
          [] OTHER ->
                LET f == IF m > 180 THEN 360 - m ELSE m
                IN  IF f > 90 THEN Scale(-1, Cos2Near(180 - f)) ELSE Cos2Near(f)

Sin2(t) == Cos2(t - 90)

---------------------------------------------------------------------------
(* create_rectangle: the corner list handed to Polygon, in quarter units.  *)

\* create_rectangle listing the corners in the order of is_overlap's arrays
\* (rear-left, rear-right, front-right, front-left)
create_rectangle_heuristic_order(cx, cy, angle, lf, wl, lr, wr) ==
    LET corners == << <<-lr, wl>>, <<-lr, -wr>>, <<lf, -wr>>, <<lf, wl>> >>
        cos_a == Cos2(angle)
        sin_a == Sin2(angle)
    IN  [i \in 1..4 |->
            LET x == corners[i][1]
                y == corners[i][2]
            IN  << Sub(Add(Z(2 * cx), Scale(x, cos_a)), Scale(y, sin_a)),
                   Add(Add(Z(2 * cy), Scale(x, sin_a)), Scale(y, cos_a)) >>]

create_rectangle(cx, cy, angle, lf, wl, lr, wr) ==
    LET corners == << <<-lr, -wr>>, <<lf, -wr>>, <<lf, wl>>, <<-lr, wl>> >>
        cos_a == Cos2(angle)
        sin_a == Sin2(angle)
    IN  [i \in 1..4 |->
            LET x == corners[i][1]
                y == corners[i][2]
            IN  << Sub(Add(Z(2 * cx), Scale(x, cos_a)), Scale(y, sin_a)),
                   Add(Add(Z(2 * cy), Scale(x, sin_a)), Scale(y, cos_a)) >>]

---------------------------------------------------------------------------
(* Polygon.intersects: the closed regions of two simple polygons share a   *)
(* point iff their boundaries meet or one holds a vertex of the other.     *)

\* (p - o) x (q - o)
Cross(o, p, q) ==
    Sub(Mul(Sub(p[1], o[1]), Sub(q[2], o[2])),
        Mul(Sub(p[2], o[2]), Sub(q[1], o[1])))

Between(u, v, w) == (Leq(u, w) /\ Leq(w, v)) \/ (Leq(v, w) /\ Leq(w, u))

\* p, known to be collinear with c and d, lies on the closed segment c-d
OnSegment(c, d, p) == Between(c[1], d[1], p[1]) /\ Between(c[2], d[2], p[2])

SegmentsMeet(p1, p2, q1, q2) ==
    LET d1 == Sgn(Cross(q1, q2, p1))
        d2 == Sgn(Cross(q1, q2, p2))
        d3 == Sgn(Cross(p1, p2, q1))
        d4 == Sgn(Cross(p1, p2, q2))
    IN  \/ d1 * d2 < 0 /\ d3 * d4 < 0
        \/ d1 = 0 /\ OnSegment(q1, q2, p1)
        \/ d2 = 0 /\ OnSegment(q1, q2, p2)
        \/ d3 = 0 /\ OnSegment(p1, p2, q1)
        \/ d4 = 0 /\ OnSegment(p1, p2, q2)

Succ4(i) == (i % 4) + 1

\* p lies in the closed region of the ring P (either winding)
Covers(P, p) ==
    \/ \A i \in 1..4 : Sgn(Cross(P[i], P[Succ4(i)], p)) >= 0
    \/ \A i \in 1..4 : Sgn(Cross(P[i], P[Succ4(i)], p)) <= 0

\* intersects reduced to vertex containment: crossing edges are not looked at
intersects_vertices_only(P, Q) ==
    \/ \E i \in 1..4 : Covers(Q, P[i])
    \/ \E j \in 1..4 : Covers(P, Q[j])

intersects(P, Q) ==
    \/ \E i \in 1..4 : \E j \in 1..4 :
          SegmentsMeet(P[i], P[Succ4(i)], Q[j], Q[Succ4(j)])
    \/ \E i \in 1..4 : Covers(Q, P[i])
    \/ \E j \in 1..4 : Covers(P, Q[j])

\* overlap building both polygons from the first rectangle
overlap_first_twice(cx1, cy1, angle1, lf1, wl1, lr1, wr1, cx2, cy2, angle2, lf2, wl2, lr2, wr2) ==
    LET r1 == create_rectangle(cx1, cy1, angle1, lf1, wl1, lr1, wr1)
        r2 == create_rectangle(cx1, cy1, angle1, lf1, wl1, lr1, wr1)
    IN  intersects(r1, r2)

\* overlap building its second rectangle from the first one's extents
overlap_copied_extents(cx1, cy1, angle1, lf1, wl1, lr1, wr1, cx2, cy2, angle2, lf2, wl2, lr2, wr2) ==
    LET r1 == create_rectangle(cx1, cy1, angle1, lf1, wl1, lr1, wr1)
        r2 == create_rectangle(cx2, cy2, angle2, lf1, wl1, lr1, wr1)
    IN  intersects(r1, r2)

overlap(cx1, cy1, angle1, lf1, wl1, lr1, wr1, cx2, cy2, angle2, lf2, wl2, lr2, wr2) ==
    LET r1 == create_rectangle(cx1, cy1, angle1, lf1, wl1, lr1, wr1)
        r2 == create_rectangle(cx2, cy2, angle2, lf2, wl2, lr2, wr2)
    IN  intersects(r1, r2)

---------------------------------------------------------------------------
(* is_overlap: the corner-containment heuristic.                           *)

\* Within with strict bounds: a corner on the edge of the box is left out
Within_strict(min_x, lx, max_x, min_y, ly, max_y) ==
    /\ Less(min_x, lx) /\ Less(lx, max_x)
    /\ Less(min_y, ly) /\ Less(ly, max_y)

\* Within with half-open bounds: the upper edges of the box are left out
Within_half_open(min_x, lx, max_x, min_y, ly, max_y) ==
    /\ Leq(min_x, lx) /\ Less(lx, max_x)
    /\ Leq(min_y, ly) /\ Less(ly, max_y)

\* Within with the two axes joined by "or"
Within_either(min_x, lx, max_x, min_y, ly, max_y) ==
    \/ Leq(min_x, lx) /\ Leq(lx, max_x)
    \/ Leq(min_y, ly) /\ Leq(ly, max_y)

\* Within with the bounds clamped as if negative extents were zero: the box
\* always reaches the center
Within_clamped(min_x, lx, max_x, min_y, ly, max_y) ==
    /\ (Leq(min_x, lx) \/ Leq(Z(0), lx)) /\ (Leq(lx, max_x) \/ Leq(lx, Z(0)))
    /\ (Leq(min_y, ly) \/ Leq(Z(0), ly)) /\ (Leq(ly, max_y) \/ Leq(ly, Z(0)))

\* Within without the test of the y axis
Within_x_only(min_x, lx, max_x, min_y, ly, max_y) ==
    Leq(min_x, lx) /\ Leq(lx, max_x)

\* min_x <= lx <= max_x and min_y <= ly <= max_y
Within(min_x, lx, max_x, min_y, ly, max_y) ==
    /\ Leq(min_x, lx) /\ Leq(lx, max_x)
    /\ Leq(min_y, ly) /\ Leq(ly, max_y)

\* the local corners of the first rectangle in the order of the loop:
\* corners_x[i], corners_y[i]
corners_y(wl1, wr1) == <<wl1, -wr1, -wr1, wl1>>

\* the x of the corners in the order of create_rectangle's list
corners_x_polygon_order(lf1, lr1) == <<-lr1, lf1, lf1, -lr1>>

corners_x(lf1, lr1) == <<-lr1, -lr1, lf1, lf1>>

\* the body of the loop for corner i: the corner is taken to the global
\* frame, then to the frame of the second rectangle, and compared with the
\* bounds of its box
corner_in_box(i, cx1, cy1, t1, lf1, wl1, lr1, wr1, cx2, cy2, t2, lf2, wl2, lr2, wr2) ==
    LET ct1 == Cos2(t1)
        st1 == Sin2(t1)
        ct2 == Cos2(t2)
        st2 == Sin2(t2)
        \* the bounds, in eighth units
        min_y == Z(4 * (-wr2))
        max_y == Z(4 * wl2)
        min_x == Z(4 * (-lr2))
        max_x == Z(4 * lf2)
        x == corners_x(lf1, lr1)[i]
        y == corners_y(wl1, wr1)[i]
        x_rot == Sub(Scale(x, ct1), Scale(y, st1))
        y_rot == Add(Scale(x, st1), Scale(y, ct1))
        x_global == Add(x_rot, Z(2 * cx1))
        y_global == Add(y_rot, Z(2 * cy1))
        tx == Sub(x_global, Z(2 * cx2))
        ty == Sub(y_global, Z(2 * cy2))
        lx == Add(Mul(tx, ct2), Mul(ty, st2))
        ly == Add(Mul(Scale(-1, tx), st2), Mul(ty, ct2))
    IN  Within(min_x, lx, max_x, min_y, ly, max_y)

transform_and_check(cx1, cy1, t1, lf1, wl1, lr1, wr1, cx2, cy2, t2, lf2, wl2, lr2, wr2) ==
    \E i \in 1..4 :
        corner_in_box(i, cx1, cy1, t1, lf1, wl1, lr1, wr1, cx2, cy2, t2, lf2, wl2, lr2, wr2)

\* the corners one call of transform_and_check examines, in order, each as
\* <<i, x, y>>: the loop returns at the first corner found in the box
examined(cx1, cy1, t1, lf1, wl1, lr1, wr1, cx2, cy2, t2, lf2, wl2, lr2, wr2) ==
    LET found == {i \in 1..4 : corner_in_box(i, cx1, cy1, t1, lf1, wl1, lr1, wr1, cx2, cy2, t2, lf2, wl2, lr2, wr2)}
        last == IF found = {} THEN 4 ELSE CHOOSE i \in found : \A j \in found : i <= j
    IN  [i \in 1..last |-> <<i, corners_x(lf1, lr1)[i], corners_y(wl1, wr1)[i]>>]

\* is_overlap without its second call
is_overlap_one_way(cx1, cy1, t1, lf1, wl1, lr1, wr1, cx2, cy2, t2, lf2, wl2, lr2, wr2) ==
    transform_and_check(cx1, cy1, t1, lf1, wl1, lr1, wr1,
                        cx2, cy2, t2, lf2, wl2, lr2, wr2)

\* is_overlap without its first call
is_overlap_reverse_only(cx1, cy1, t1, lf1, wl1, lr1, wr1, cx2, cy2, t2, lf2, wl2, lr2, wr2) ==
    transform_and_check(cx2, cy2, t2, lf2, wl2, lr2, wr2,
                        cx1, cy1, t1, lf1, wl1, lr1, wr1)

\* is_overlap whose second call exchanges the poses but not the extents
is_overlap_unswapped_extents(cx1, cy1, t1, lf1, wl1, lr1, wr1, cx2, cy2, t2, lf2, wl2, lr2, wr2) ==
    \/ transform_and_check(cx1, cy1, t1, lf1, wl1, lr1, wr1,
                           cx2, cy2, t2, lf2, wl2, lr2, wr2)
    \/ transform_and_check(cx2, cy2, t2, lf1, wl1, lr1, wr1,
                           cx1, cy1, t1, lf2, wl2, lr2, wr2)

\* is_overlap handing the first center to both rectangles
is_overlap_same_center(cx1, cy1, t1, lf1, wl1, lr1, wr1, cx2, cy2, t2, lf2, wl2, lr2, wr2) ==
    \/ transform_and_check(cx1, cy1, t1, lf1, wl1, lr1, wr1,
                           cx1, cy1, t2, lf2, wl2, lr2, wr2)
    \/ transform_and_check(cx1, cy1, t2, lf2, wl2, lr2, wr2,
                           cx1, cy1, t1, lf1, wl1, lr1, wr1)

is_overlap(cx1, cy1, t1, lf1, wl1, lr1, wr1, cx2, cy2, t2, lf2, wl2, lr2, wr2) ==
    \/ transform_and_check(cx1, cy1, t1, lf1, wl1, lr1, wr1,
                           cx2, cy2, t2, lf2, wl2, lr2, wr2)
    \/ transform_and_check(cx2, cy2, t2, lf2, wl2, lr2, wr2,
                           cx1, cy1, t1, lf1, wl1, lr1, wr1)

\* the direction (1: corners of the first rectangle, 2: of the second) put
\* before each examined corner
Tagged(d, s) == [k \in 1..Len(s) |-> <<d>> \o s[k]]

\* the corners of one call of is_overlap with both directions always run
is_overlap_examined_both(cx1, cy1, t1, lf1, wl1, lr1, wr1, cx2, cy2, t2, lf2, wl2, lr2, wr2) ==
    Tagged(1, examined(cx1, cy1, t1, lf1, wl1, lr1, wr1, cx2, cy2, t2, lf2, wl2, lr2, wr2))
        \o Tagged(2, examined(cx2, cy2, t2, lf2, wl2, lr2, wr2, cx1, cy1, t1, lf1, wl1, lr1, wr1))

\* the corners one call of is_overlap examines, each as <<direction, i, x, y>>:
\* "or" runs the second direction only when the first returned false
is_overlap_examined(cx1, cy1, t1, lf1, wl1, lr1, wr1, cx2, cy2, t2, lf2, wl2, lr2, wr2) ==
    Tagged(1, examined(cx1, cy1, t1, lf1, wl1, lr1, wr1, cx2, cy2, t2, lf2, wl2, lr2, wr2))
        \o (IF transform_and_check(cx1, cy1, t1, lf1, wl1, lr1, wr1, cx2, cy2, t2, lf2, wl2, lr2, wr2)
             THEN <<>>
             ELSE Tagged(2, examined(cx2, cy2, t2, lf2, wl2, lr2, wr2, cx1, cy1, t1, lf1, wl1, lr1, wr1)))

---------------------------------------------------------------------------
(* is_overlap as the interpreter computes it, in binary64, for headings    *)
(* that are multiples of 90 degrees.  There cos and sin are 0 or +-1 up to *)
(* the error of pi, and every value of the computation lies within a few   *)
(* ulp of a multiple of 1/2.  A double is a pair <<k, e>> standing for     *)
(* k/2 + e * 2^-53 / 80000; every operation rounds to the nearest double,  *)
(* ties to even.  A product of two errors (below 10^-31) is dropped.       *)

\* 2^-53, the distance of the doubles in [1/2, 1), in units of e
Spacing == 80000

\* math.cos(deg2rad(90)) = 6.123233995736766e-17 in units of e
CosRightAngle == 44122

\* math.cos and math.sin of deg2rad(t) for t a multiple of 90:
\* sin(-pi) = -1.2246467991473532e-16, cos(1.5*pi) = -1.8369701987210297e-16
cos_double(t) ==
    CASE t = 0 -> <<2, 0>>
      [] t = 90 -> <<0, CosRightAngle>>
      [] t = -90 -> <<0, CosRightAngle>>
      [] t = 180 -> <<-2, 0>>
      [] t = -180 -> <<-2, 0>>
      [] t = 270 -> <<0, -3 * CosRightAngle>>

sin_double(t) ==
    CASE t = 0 -> <<0, 0>>
      [] t = 90 -> <<2, 0>>
      [] t = -90 -> <<-2, 0>>
      [] t = 180 -> <<0, 2 * CosRightAngle>>
      [] t = -180 -> <<0, -2 * CosRightAngle>>
      [] t = 270 -> <<-2, 0>>

\* the integer k of half units as a double
Double(k) == <<k, 0>>

\* the largest power of two that is not above m, for 1 <= m < 1024
PowerBelow(m) == CHOOSE p \in {1, 2, 4, 8, 16, 32, 64, 128, 256, 512} : p <= m /\ m < 2 * p

\* s rounded to the nearest multiple of u, a tie to the even multiple
RoundHalfEven(s, u) ==
    LET q == s \div u
        r == s % u
    IN  IF 2 * r > u \/ (2 * r = u /\ q % 2 = 1) THEN (q + 1) * u ELSE q * u

\* k/2 + e rounded to the nearest double: the doubles about k/2 are
\* PowerBelow(|k|) * 2^-53 apart, half of that below a power of two
Rounded(k, e) ==
    IF k = 0 THEN <<0, e>>
    ELSE LET sg == IF k > 0 THEN 1 ELSE -1
             m == sg * k
             s == sg * e
             p == PowerBelow(m)
             ulp == IF m = p /\ s < 0 THEN (p * Spacing) \div 2 ELSE p * Spacing
         IN  <<k, sg * RoundHalfEven(s, ulp)>>

\* u * v, u + v, -u, u - v and u <= v in binary64; in a product one factor
\* is a cosine or a sine
Times(u, v) == Rounded((u[1] * v[1]) \div 2, (u[1] * v[2] + v[1] * u[2]) \div 2)

Plus(u, v) == Rounded(u[1] + v[1], u[2] + v[2])

Minus(u) == <<-u[1], -u[2]>>

Less_or_equal(u, v) == u[1] < v[1] \/ (u[1] = v[1] /\ u[2] <= v[2])

transform_and_check_double(cx1, cy1, t1, lf1, wl1, lr1, wr1, cx2, cy2, t2, lf2, wl2, lr2, wr2) ==
    LET ct1 == cos_double(t1)
        st1 == sin_double(t1)
        ct2 == cos_double(t2)
        st2 == sin_double(t2)
        min_y == Double(-wr2)
        max_y == Double(wl2)
        min_x == Double(-lr2)
        max_x == Double(lf2)
    IN  \E i \in 1..4 :
            LET x == Double(corners_x(lf1, lr1)[i])
                y == Double(corners_y(wl1, wr1)[i])
                x_rot == Plus(Times(x, ct1), Minus(Times(y, st1)))
                y_rot == Plus(Times(x, st1), Times(y, ct1))
                x_global == Plus(x_rot, Double(cx1))
                y_global == Plus(y_rot, Double(cy1))
                tx == Plus(x_global, Minus(Double(cx2)))
                ty == Plus(y_global, Minus(Double(cy2)))
                lx == Plus(Times(tx, ct2), Times(ty, st2))
                ly == Plus(Times(Minus(tx), st2), Times(ty, ct2))
            IN  /\ Less_or_equal(min_x, lx) /\ Less_or_equal(lx, max_x)
                /\ Less_or_equal(min_y, ly) /\ Less_or_equal(ly, max_y)

is_overlap_double(cx1, cy1, t1, lf1, wl1, lr1, wr1, cx2, cy2, t2, lf2, wl2, lr2, wr2) ==
    \/ transform_and_check_double(cx1, cy1, t1, lf1, wl1, lr1, wr1,
                                  cx2, cy2, t2, lf2, wl2, lr2, wr2)
    \/ transform_and_check_double(cx2, cy2, t2, lf2, wl2, lr2, wr2,
                                  cx1, cy1, t1, lf1, wl1, lr1, wr1)

---------------------------------------------------------------------------
(* The state machine: a pair of rectangles is given, and the program's     *)
(* functions are applied to it one after the other.                        *)

Rect(cx, cy, t, e) ==
    [cx |-> cx, cy |-> cy, t |-> t, lf |-> e[1], wl |-> e[2], lr |-> e[3], wr |-> e[4]]

Polygon(r) == create_rectangle(r.cx, r.cy, r.t, r.lf, r.wl, r.lr, r.wr)

Exact(r, s) ==
    overlap(r.cx, r.cy, r.t, r.lf, r.wl, r.lr, r.wr,
            s.cx, s.cy, s.t, s.lf, s.wl, s.lr, s.wr)

Heuristic(r, s) ==
    is_overlap(r.cx, r.cy, r.t, r.lf, r.wl, r.lr, r.wr,
               s.cx, s.cy, s.t, s.lf, s.wl, s.lr, s.wr)

\* the largest center offset of the second rectangle, in half units
MaxOff == 2

\* range(start, stop, step) for a positive step, as a list
range(start, stop, step) ==
    [j \in 1..((stop - start + step - 1) \div step) |-> start + (j - 1) * step]

\* the members of a list
Elems(s) == {s[j] : j \in DOMAIN s}

\* the headings of the generator's sweep
os1 == range(-180, 179, 45)

\* the headings given to the first rectangle
HeadingsA == {0, 45}

\* extents <<lf, wl, lr, wr>> in half units: the unit-extent square, the
\* generator's rectangle A (1, 1, 1, 2), a small square, a long rectangle,
\* a rectangle with a negative rear extent, and two whose box is inverted
\* along x (lf < -lr)
Shapes ==
    { <<2, 2, 2, 2>>, <<2, 2, 2, 4>>, <<1, 1, 1, 1>>, <<6, 2, 6, 2>>,
      <<4, 1, -3, 2>>, <<2, 2, -3, 2>>, <<-6, 3, 0, 3>> }

None == "none"

\* the disjoint baseline: unit extents at (0,0) and (100,100), heading 0
BaselineA == Rect(0, 0, 0, <<2, 2, 2, 2>>)

BaselineB == Rect(200, 200, 0, <<2, 2, 2, 2>>)

\* the program is not running
Idle ==
    /\ at = "idle"
    /\ rx = None /\ ad = None /\ fac = None
    /\ n1 = None /\ n2 = None /\ idx = None
    /\ test_cases = <<>> /\ results = <<>>
    /\ startId = None /\ stopId = None
    /\ out = <<>> /\ drawn = <<>> /\ html = None
    /\ tested = <<>>
    /\ run = 0 /\ first = None

Init ==
    /\ \/ /\ a \in {Rect(0, 0, t, e) : t \in HeadingsA, e \in Shapes}
          /\ b \in {Rect(off[1], off[2], t, e) :
                        off \in (-MaxOff..MaxOff) \X (-MaxOff..MaxOff),
                        t \in Elems(os1), e \in Shapes}
       \/ /\ a = BaselineA
          /\ b = BaselineB
    /\ pc = "build"
    /\ rect1 = None
    /\ rect2 = None
    /\ exact = None
    /\ heur = None
    /\ heurSwap = None
    /\ heurSelf = None
    /\ b2 = None
    /\ heurBig = None
    /\ twin = None
    /\ heurTwin = None
    /\ Idle

\* the two polygons are built
Build ==
    /\ pc = "build"
    /\ rect1' = Polygon(a)
    /\ rect2' = Polygon(b)
    /\ pc' = "exact"
    /\ UNCHANGED <<a, b, exact, heur, heurSwap, heurSelf, b2, heurBig>>
    /\ UNCHANGED <<twin, heurTwin>>
    /\ UNCHANGED program

\* the exact tester classifies the pair
CallOverlap ==
    /\ pc = "exact"
    /\ exact' = Exact(a, b)
    /\ pc' = "heur"
    /\ UNCHANGED <<a, b, rect1, rect2, heur, heurSwap, heurSelf, b2, heurBig>>
    /\ UNCHANGED <<twin, heurTwin>>
    /\ UNCHANGED program

\* the heuristic classifies the pair
CallIsOverlap ==
    /\ pc = "heur"
    /\ heur' = Heuristic(a, b)
    /\ pc' = "swap"
    /\ UNCHANGED <<a, b, rect1, rect2, exact, heurSwap, heurSelf, b2, heurBig>>
    /\ UNCHANGED <<twin, heurTwin>>
    /\ UNCHANGED program

\* the heuristic classifies the pair with its arguments exchanged
CallIsOverlapSwapped ==
    /\ pc = "swap"
    /\ heurSwap' = Heuristic(b, a)
    /\ pc' = "self"
    /\ UNCHANGED <<a, b, rect1, rect2, exact, heur, heurSelf, b2, heurBig>>
    /\ UNCHANGED <<twin, heurTwin>>
    /\ UNCHANGED program

\* the heuristic classifies the first rectangle against itself
CallIsOverlapSelf ==
    /\ pc = "self"
    /\ heurSelf' = Heuristic(a, a)
    /\ pc' = "grow"
    /\ UNCHANGED <<a, b, rect1, rect2, exact, heur, heurSwap, b2, heurBig>>
    /\ UNCHANGED <<twin, heurTwin>>
    /\ UNCHANGED program

StrictlyLarger(e, r) == e[1] > r.lf /\ e[2] > r.wl /\ e[3] > r.lr /\ e[4] > r.wr

\* the second rectangle is scaled in place, all four extents growing, and
\* the heuristic classifies the pair again
CallIsOverlapEnlarged ==
    /\ pc = "grow"
    /\ \E e \in Shapes :
          /\ StrictlyLarger(e, b)
          /\ b2' = Rect(b.cx, b.cy, b.t, e)
          /\ heurBig' = Heuristic(a, b2')
    /\ pc' = "done"
    /\ UNCHANGED <<a, b, rect1, rect2, exact, heur, heurSwap, heurSelf>>
    /\ UNCHANGED <<twin, heurTwin>>
    /\ UNCHANGED program

Next ==
    \/ Build
    \/ CallOverlap
    \/ CallIsOverlap
    \/ CallIsOverlapSwapped
    \/ CallIsOverlapSelf
    \/ CallIsOverlapEnlarged

Spec == Init /\ [][Next]_vars

\* extents <<lf, wl, lr, wr>> in half units none of which is negative and
\* some of which are zero: the center lies on an edge or on a corner of the
\* box, and the box has a positive area
NonNegativeShapes ==
    { <<2, 2, 2, 4>>, <<2, 2, 0, 2>>, <<0, 2, 2, 0>>, <<2, 0, 0, 4>>, <<1, 1, 1, 1>> }

\* a pair of rectangles without a negative extent is given
InitNonNegative ==
    /\ a \in {Rect(0, 0, t, e) : t \in HeadingsA, e \in NonNegativeShapes}
    /\ b \in {Rect(off[1], off[2], t, e) :
                  off \in (-MaxOff..MaxOff) \X (-MaxOff..MaxOff),
                  t \in Elems(os1), e \in NonNegativeShapes}
    /\ pc = "build"
    /\ rect1 = None
    /\ rect2 = None
    /\ exact = None
    /\ heur = None
    /\ heurSwap = None
    /\ heurSelf = None
    /\ b2 = None
    /\ heurBig = None
    /\ twin = None
    /\ heurTwin = None
    /\ Idle

\* the polygons are built and the pair is classified by both testers
NextNonNegative ==
    \/ Build
    \/ CallOverlap
    \/ CallIsOverlap

SpecNonNegative == InitNonNegative /\ [][NextNonNegative]_vars

HeuristicDouble(r, s) ==
    is_overlap_double(r.cx, r.cy, r.t, r.lf, r.wl, r.lr, r.wr,
                      s.cx, s.cy, s.t, s.lf, s.wl, s.lr, s.wr)

\* the headings of the sweep that are multiples of 90 degrees
RightAngles == {-180, -90, 0, 90}

\* extents <<lf, wl, lr, wr>> in half units, all positive: the unit-extent
\* square, the generator's rectangle A (1, 1, 1, 2) and a small square
PositiveShapes == { <<2, 2, 2, 2>>, <<2, 2, 2, 4>>, <<1, 1, 1, 1>> }

\* the vectors by which a pair is moved, in half units: (2, 2) and (100, 100)
Shifts == { <<4, 4>>, <<200, 200>> }

\* r moved by the vector d
Shifted(r, d) == [r EXCEPT !.cx = r.cx + d[1], !.cy = r.cy + d[2]]

\* r turned by half a turn about its center with front and rear, left and
\* right extents exchanged
HalfTurn(r) == Rect(r.cx, r.cy, r.t + 180, <<r.lr, r.wr, r.lf, r.wl>>)

\* a pair of rectangles of positive extents at right angles is given
InitDouble ==
    /\ a \in {Rect(0, 0, t, e) : t \in {0, 90}, e \in PositiveShapes}
    /\ b \in {Rect(off[1], off[2], t, e) :
                  off \in (-MaxOff..MaxOff) \X (-MaxOff..MaxOff),
                  t \in RightAngles, e \in PositiveShapes}
    /\ pc = "double"
    /\ rect1 = None
    /\ rect2 = None
    /\ exact = None
    /\ heur = None
    /\ heurSwap = None
    /\ heurSelf = None
    /\ b2 = None
    /\ heurBig = None
    /\ twin = None
    /\ heurTwin = None
    /\ Idle

\* the heuristic classifies the pair
CallIsOverlapDouble ==
    /\ pc = "double"
    /\ heur' = HeuristicDouble(a, b)
    /\ pc' = "twin"
    /\ UNCHANGED <<a, b, rect1, rect2, exact, heurSwap, heurSelf, b2, heurBig, twin, heurTwin>>
    /\ UNCHANGED program

\* both rectangles are moved by the same vector and classified again
CallIsOverlapShifted ==
    /\ pc = "twin"
    /\ \E d \in Shifts :
          /\ twin' = <<Shifted(a, d), Shifted(b, d)>>
          /\ heurTwin' = HeuristicDouble(Shifted(a, d), Shifted(b, d))
    /\ pc' = "shifted"
    /\ UNCHANGED <<a, b, rect1, rect2, exact, heur, heurSwap, heurSelf, b2, heurBig>>
    /\ UNCHANGED program

\* one of the rectangles is replaced by its half-turned twin and the pair
\* classified again
CallIsOverlapHalfTurned ==
    /\ pc = "twin"
    /\ \/ twin' = <<HalfTurn(a), b>>
       \/ twin' = <<a, HalfTurn(b)>>
    /\ heurTwin' = HeuristicDouble(twin'[1], twin'[2])
    /\ pc' = "turned"
    /\ UNCHANGED <<a, b, rect1, rect2, exact, heur, heurSwap, heurSelf, b2, heurBig>>
    /\ UNCHANGED program

NextDouble ==
    \/ CallIsOverlapDouble
    \/ CallIsOverlapShifted
    \/ CallIsOverlapHalfTurned

SpecDouble == InitDouble /\ [][NextDouble]_vars

---------------------------------------------------------------------------
(* The program: caller, plot_all_rectangles and the report loop of         *)
(* __main__.  Lengths are in tenths, headings in degrees (deg2rad only     *)
(* changes the unit in which the same heading is written).  A list index i *)
(* of the code is the position i + 1 of the model's lists.                 *)

ry == 40

lf1 == 10

wl1 == 10

lr1 == 10

\* the first rectangle's right extent made equal to the other three
wr1_unit == lr1

wr1 == 20

lsy == <<0, 60, 100, 140, 220, 340, 440, 500, 560, 620, 700>>

lsx == <<10, 10, 10, 10, 10, 10, 10, 10, 30, 40, 50>>

lfs2 == <<0, 0, 0, 0, 0, 0, -5, -8, 20, 30, 40>>

wls2 == <<-5, -5, -5, -5, 30, 40, -5, -5, 0, 0, 0>>

lrs2 == <<0, 0, -5, -7, 0, 0, -5, -8, 20, 30, 40>>

wrs2 == <<0, 0, -15, -17, 20, 30, 0, 0, -10, -10, -10>>

\* the offsets of the second rectangle's heading
os2 == range(0, 31, 10)

\* the list appended for preset i with the deltas given to the first
\* rectangle instead of the second
scenario_deltas_on_first(h1, x2, y2, h2, i) ==
    <<rx, ry + lsy[i + 1], h1, lf1 + lfs2[i + 1], wl1 + wls2[i + 1], lr1 + lrs2[i + 1], wr1 + wrs2[i + 1],
      x2, y2, h2, lf1, wl1, lr1, wr1>>

\* the list appended for preset i: the first rectangle at (rx, ry + lsy[i])
\* with heading h1, the second at (x2, y2) with heading h2 and the extents
\* of the first plus the preset's deltas
scenario(h1, x2, y2, h2, i) ==
    <<rx, ry + lsy[i + 1], h1, lf1, wl1, lr1, wr1,
      x2, y2, h2, lf1 + lfs2[i + 1], wl1 + wls2[i + 1], lr1 + lrs2[i + 1], wr1 + wrs2[i + 1]>>

\* the conditions of the if/elif chain of the sweep, in its order: heading
\* of the first rectangle, offset of the second, presets, and what the
\* branch adds to the second center
branches ==
    << [h1 |-> -180, off |-> 30, i |-> {10}, dx |-> -10, dy |-> 0],
       [h1 |-> -135, off |-> 0, i |-> 8..10, dx |-> -25, dy |-> 0],
       [h1 |-> -135, off |-> 10, i |-> 8..10, dx |-> -27, dy |-> 0],
       [h1 |-> -135, off |-> 20, i |-> 8..10, dx |-> -27, dy |-> 0],
       [h1 |-> -135, off |-> 30, i |-> 8..10, dx |-> -27, dy |-> 0],
       [h1 |-> -90, off |-> 0, i |-> 8..9, dx |-> -27, dy |-> 0],
       [h1 |-> -90, off |-> 0, i |-> {10}, dx |-> -35, dy |-> 0],
       [h1 |-> -90, off |-> 0, i |-> 0..5, dx |-> 0, dy |-> -5],
       [h1 |-> -90, off |-> 10, i |-> 8..10, dx |-> -30, dy |-> 0],
       [h1 |-> -90, off |-> 20, i |-> 8..10, dx |-> -30, dy |-> 0],
       [h1 |-> -90, off |-> 30, i |-> 8..10, dx |-> -30, dy |-> 0],
       [h1 |-> -45, off |-> 0, i |-> 8..10, dx |-> -27, dy |-> 0],
       [h1 |-> -45, off |-> 10, i |-> 8..10, dx |-> -27, dy |-> 0],
       [h1 |-> -45, off |-> 20, i |-> 7..10, dx |-> -27, dy |-> 0],
       [h1 |-> -45, off |-> 30, i |-> 8..10, dx |-> -27, dy |-> 0],
       [h1 |-> -45, off |-> 30, i |-> {7}, dx |-> -10, dy |-> 0],
       [h1 |-> 45, off |-> 0, i |-> 9..10, dx |-> -15, dy |-> 0],
       [h1 |-> 45, off |-> 10, i |-> 9..10, dx |-> -27, dy |-> 0],
       [h1 |-> 45, off |-> 20, i |-> 9..10, dx |-> -27, dy |-> 0],
       [h1 |-> 45, off |-> 30, i |-> 9..10, dx |-> -27, dy |-> 0],
       [h1 |-> 90, off |-> 0, i |-> 9..10, dx |-> -27, dy |-> 0],
       [h1 |-> 90, off |-> 0, i |-> {8}, dx |-> -7, dy |-> 0],
       [h1 |-> 90, off |-> 0, i |-> 0..5, dx |-> 0, dy |-> -5],
       [h1 |-> 90, off |-> 10, i |-> 9..10, dx |-> -27, dy |-> 0],
       [h1 |-> 90, off |-> 20, i |-> 9..10, dx |-> -27, dy |-> 0],
       [h1 |-> 90, off |-> 30, i |-> 9..10, dx |-> -27, dy |-> 0],
       [h1 |-> 135, off |-> 0, i |-> 9..10, dx |-> -20, dy |-> 0] >>

\* the conditions of the chain without their test of the preset
taken_any_preset(h1, h2, i) ==
    {k \in DOMAIN branches : h1 = branches[k].h1 /\ h2 = h1 + branches[k].off}

\* the branches whose condition holds for headings h1, h2 and preset i
taken(h1, h2, i) ==
    {k \in DOMAIN branches :
        h1 = branches[k].h1 /\ h2 = h1 + branches[k].off /\ i \in branches[k].i}

\* what the chain adds to the second center: the first branch whose
\* condition holds, or nothing (the final else)
correction(h1, h2, i) ==
    IF taken(h1, h2, i) = {} THEN [dx |-> 0, dy |-> 0]
    ELSE branches[CHOOSE k \in taken(h1, h2, i) : \A m \in taken(h1, h2, i) : k <= m]

\* the loop variables of the sweep: o1, and o2 after "o2 += o1"
o1 == os1[n1]

o2 == os2[n2] + o1

\* the harness of the pair classification is not running
NoPair ==
    /\ a = None /\ b = None /\ pc = "idle"
    /\ exact = None /\ heur = None /\ heurSwap = None /\ heurSelf = None
    /\ b2 = None /\ heurBig = None
    /\ twin = None /\ heurTwin = None

pair == <<a, b, pc, exact, heur, heurSwap, heurSelf, b2, heurBig, twin, heurTwin>>

\* __main__ has called caller, whose assignments before the first loop are
\* done
InitMain ==
    /\ NoPair
    /\ rect1 = None /\ rect2 = None
    /\ at = "block1"
    /\ rx = 20 /\ ad = 0 /\ fac = 1
    /\ n1 = 0 /\ n2 = 0 /\ idx = 0
    /\ test_cases = <<>> /\ results = <<>>
    /\ startId = None /\ stopId = None
    /\ out = <<>> /\ drawn = <<>> /\ html = None
    /\ tested = <<>>
    /\ run = 1 /\ first = None

\* one turn of one of the first three loops with the second center moved
\* along x by the preset's lsy in place of its lsx
BaselineAppend_lsy_for_lsx ==
    /\ at \in {"block1", "block2", "block3"}
    /\ idx < Len(lsx)
    /\ test_cases' = Append(test_cases,
            scenario(0, rx + lsy[idx + 1], ry + fac * ad + lsy[idx + 1], 0, idx))
    /\ idx' = idx + 1
    /\ UNCHANGED <<at, rx, ad, fac, n1, n2, results, startId, stopId, out, drawn, html, tested, run, first>>
    /\ UNCHANGED <<pair, rect1, rect2>>

\* one turn of one of the first three loops: preset idx is appended
BaselineAppend ==
    /\ at \in {"block1", "block2", "block3"}
    /\ idx < Len(lsx)
    /\ test_cases' = Append(test_cases,
            scenario(0, rx + lsx[idx + 1], ry + fac * ad + lsy[idx + 1], 0, idx))
    /\ idx' = idx + 1
    /\ UNCHANGED <<at, rx, ad, fac, n1, n2, results, startId, stopId, out, drawn, html, tested, run, first>>
    /\ UNCHANGED <<pair, rect1, rect2>>

\* "right of centre": the first loop is over, the second is set up
RightOfCentre ==
    /\ at = "block1" /\ idx = Len(lsx)
    /\ rx' = rx + 120 /\ ad' = 10 /\ fac' = 1
    /\ idx' = 0 /\ at' = "block2"
    /\ UNCHANGED <<n1, n2, test_cases, results, startId, stopId, out, drawn, html, tested, run, first>>
    /\ UNCHANGED <<pair, rect1, rect2>>

\* "left of centre": the second loop is over, the third is set up
LeftOfCentre ==
    /\ at = "block2" /\ idx = Len(lsx)
    /\ rx' = rx + 120 /\ ad' = 10 /\ fac' = -1
    /\ idx' = 0 /\ at' = "block3"
    /\ UNCHANGED <<n1, n2, test_cases, results, startId, stopId, out, drawn, html, tested, run, first>>
    /\ UNCHANGED <<pair, rect1, rect2>>

\* "below centre" with rx moved on by 12 like the blocks before it
BelowCentre_step_12 ==
    /\ at = "block3" /\ idx = Len(lsx)
    /\ rx' = rx + 120 /\ ad' = 0 /\ fac' = 1
    /\ idx' = 0 /\ at' = "block4"
    /\ UNCHANGED <<n1, n2, test_cases, results, startId, stopId, out, drawn, html, tested, run, first>>
    /\ UNCHANGED <<pair, rect1, rect2>>

\* "below centre": the third loop is over, the fourth is set up
BelowCentre ==
    /\ at = "block3" /\ idx = Len(lsx)
    /\ rx' = rx + 220 /\ ad' = 0 /\ fac' = 1
    /\ idx' = 0 /\ at' = "block4"
    /\ UNCHANGED <<n1, n2, test_cases, results, startId, stopId, out, drawn, html, tested, run, first>>
    /\ UNCHANGED <<pair, rect1, rect2>>

\* the fourth loop with the second center placed like the first loop's
MirroredAppend_unmirrored ==
    /\ at = "block4"
    /\ idx < Len(lsx)
    /\ test_cases' = Append(test_cases,
            scenario(0, rx + lsx[idx + 1], ry + fac * ad + lsy[idx + 1], 0, idx))
    /\ idx' = idx + 1
    /\ UNCHANGED <<at, rx, ad, fac, n1, n2, results, startId, stopId, out, drawn, html, tested, run, first>>
    /\ UNCHANGED <<pair, rect1, rect2>>

\* one turn of the fourth loop: preset idx with the second center at
\* 2*x2 - x1
MirroredAppend ==
    /\ at = "block4"
    /\ idx < Len(lsx)
    /\ LET x1 == rx + lsx[idx + 1]
           x2 == rx
       IN  test_cases' = Append(test_cases,
                scenario(0, 2 * x2 - x1, ry + fac * ad + lsy[idx + 1], 0, idx))
    /\ idx' = idx + 1
    /\ UNCHANGED <<at, rx, ad, fac, n1, n2, results, startId, stopId, out, drawn, html, tested, run, first>>
    /\ UNCHANGED <<pair, rect1, rect2>>

\* the fourth loop is over: os1 and os2 are built and printed, ad and fac
\* set to 0; the sweep stands before its first pair
SweepSetup ==
    /\ at = "block4" /\ idx = Len(lsx)
    /\ out' = out \o << <<"print", os1>>, <<"print", os2>> >>
    /\ ad' = 0 /\ fac' = 0
    /\ n1' = 1 /\ n2' = 0
    /\ at' = "sweep"
    /\ UNCHANGED <<rx, idx, test_cases, results, startId, stopId, drawn, html, tested, run, first>>
    /\ UNCHANGED <<pair, rect1, rect2>>

\* the two for statements without the test that skips the pair (0, 0)
SweepNext_no_skip ==
    /\ at = "sweep" /\ idx = Len(lsx)
    /\ ~(n1 = Len(os1) /\ n2 = Len(os2))
    /\ IF n2 < Len(os2) THEN n1' = n1 /\ n2' = n2 + 1
                        ELSE n1' = n1 + 1 /\ n2' = 1
    /\ rx' = rx + 120 /\ idx' = 0
    /\ UNCHANGED <<at, ad, fac, test_cases, results, startId, stopId, out, drawn, html, tested, run, first>>
    /\ UNCHANGED <<pair, rect1, rect2>>

\* the two for statements take the next pair (o1, o2); the pair (0, 0) is
\* skipped by "continue", for any other pair rx moves on and the inner loop
\* starts
SweepNext ==
    /\ at = "sweep" /\ idx = Len(lsx)
    /\ ~(n1 = Len(os1) /\ n2 = Len(os2))
    /\ IF n2 < Len(os2) THEN n1' = n1 /\ n2' = n2 + 1
                        ELSE n1' = n1 + 1 /\ n2' = 1
    /\ IF os1[n1'] = 0 /\ os2[n2'] = 0
       THEN UNCHANGED <<rx, idx>>
       ELSE rx' = rx + 120 /\ idx' = 0
    /\ UNCHANGED <<at, ad, fac, test_cases, results, startId, stopId, out, drawn, html, tested, run, first>>
    /\ UNCHANGED <<pair, rect1, rect2>>

\* one turn of the sweep's inner loop without the if/elif chain
SweepAppend_no_correction ==
    /\ at = "sweep"
    /\ idx < Len(lsx)
    /\ test_cases' = Append(test_cases,
            scenario(o1, rx + lsx[idx + 1], ry + fac * ad + lsy[idx + 1], o2, idx))
    /\ idx' = idx + 1
    /\ UNCHANGED <<at, rx, ad, fac, n1, n2, results, startId, stopId, out, drawn, html, tested, run, first>>
    /\ UNCHANGED <<pair, rect1, rect2>>

\* one turn of the inner loop: preset idx for the pair (o1, o2), the second
\* center moved by the branch of the chain that applies
SweepAppend ==
    /\ at = "sweep"
    /\ idx < Len(lsx)
    /\ LET c == correction(o1, o2, idx)
       IN  test_cases' = Append(test_cases,
                scenario(o1, rx + lsx[idx + 1] + c.dx, ry + fac * ad + lsy[idx + 1] + c.dy, o2, idx))
    /\ idx' = idx + 1
    /\ UNCHANGED <<at, rx, ad, fac, n1, n2, results, startId, stopId, out, drawn, html, tested, run, first>>
    /\ UNCHANGED <<pair, rect1, rect2>>

\* the sweep is over: startId, stopId and results are set
SweepDone ==
    /\ at = "sweep" /\ idx = Len(lsx)
    /\ n1 = Len(os1) /\ n2 = Len(os2)
    /\ startId' = 0
    /\ stopId' = Len(test_cases)
    /\ results' = <<>>
    /\ at' = "classify"
    /\ UNCHANGED <<rx, ad, fac, n1, n2, idx, test_cases, out, drawn, html, tested, run, first>>
    /\ UNCHANGED <<pair, rect1, rect2>>

\* is_overlap(*case), with the corners it examined
Verdict(case) ==
    is_overlap(case[1], case[2], case[3], case[4], case[5], case[6], case[7],
               case[8], case[9], case[10], case[11], case[12], case[13], case[14])

Examined(case) ==
    is_overlap_examined(case[1], case[2], case[3], case[4], case[5], case[6], case[7],
                        case[8], case[9], case[10], case[11], case[12], case[13], case[14])

\* the classification loop pairing every verdict with the first scenario
Classify_first_case ==
    /\ at = "classify"
    /\ Len(results) < Len(test_cases)
    /\ LET case == test_cases[1]
           result == Verdict(test_cases[Len(results) + 1])
       IN  /\ results' = Append(results, <<case, result>>)
           /\ tested' = Examined(test_cases[Len(results) + 1])
    /\ UNCHANGED <<at, rx, ad, fac, n1, n2, idx, test_cases, startId, stopId, out, drawn, html, run, first>>
    /\ UNCHANGED <<pair, rect1, rect2>>

\* one turn of "for case in test_cases": the next scenario is classified
\* and appended to results with its verdict
Classify ==
    /\ at = "classify"
    /\ Len(results) < Len(test_cases)
    /\ LET case == test_cases[Len(results) + 1]
           result == Verdict(case)
       IN  /\ results' = Append(results, <<case, result>>)
           /\ tested' = Examined(case)
    /\ UNCHANGED <<at, rx, ad, fac, n1, n2, idx, test_cases, startId, stopId, out, drawn, html, run, first>>
    /\ UNCHANGED <<pair, rect1, rect2>>

\* caller returns results, stopId, startId, test_cases
Return ==
    /\ at = "classify"
    /\ Len(results) = Len(test_cases)
    /\ at' = "returned"
    /\ UNCHANGED <<rx, ad, fac, n1, n2, idx, test_cases, results, startId, stopId, out, drawn, html, tested, run, first>>
    /\ UNCHANGED <<pair, rect1, rect2>>

\* the value caller has returned
Returned == <<results, stopId, startId, test_cases>>

\* a second run that goes on from the rx the first run ended with
Rerun_keeps_rx ==
    /\ at = "returned" /\ run = 1
    /\ first' = Returned
    /\ run' = 2
    /\ at' = "block1"
    /\ ad' = 0 /\ fac' = 1
    /\ n1' = 0 /\ n2' = 0 /\ idx' = 0
    /\ test_cases' = <<>> /\ results' = <<>>
    /\ startId' = None /\ stopId' = None
    /\ UNCHANGED <<rx, out, drawn, html, tested>>
    /\ UNCHANGED <<pair, rect1, rect2>>

\* caller is run once more: its locals are assigned afresh, standard output
\* goes on; what the first run returned is kept aside
Rerun ==
    /\ at = "returned" /\ run = 1
    /\ first' = Returned
    /\ run' = 2
    /\ at' = "block1"
    /\ rx' = 20 /\ ad' = 0 /\ fac' = 1
    /\ n1' = 0 /\ n2' = 0 /\ idx' = 0
    /\ test_cases' = <<>> /\ results' = <<>>
    /\ startId' = None /\ stopId' = None
    /\ UNCHANGED <<out, drawn, html, tested>>
    /\ UNCHANGED <<pair, rect1, rect2>>

\* the reach of the windows tried, from either end of the results
MaxWin == 1

\* the values tried for startId and stopId: near the first index, near the
\* last, and the length itself (the stopId caller returns)
Edge(n) == (0..MaxWin) \cup ((n - 1 - MaxWin)..n)

\* plot_all_rectangles is called with a window: the one caller returned or
\* another one near the ends of the results
CallPlot ==
    /\ at = "returned"
    /\ \E s \in Edge(Len(results)) : \E e \in Edge(Len(results)) :
          startId' = s /\ stopId' = e
    /\ idx' = 0
    /\ drawn' = <<>>
    /\ at' = "plot"
    /\ UNCHANGED <<rx, ad, fac, n1, n2, test_cases, results, out, html, tested, run, first>>
    /\ UNCHANGED <<pair, rect1, rect2>>

\* one turn of the loop of plot_all_rectangles over enumerate(results):
\* below startId nothing is done; otherwise both polygons are built and
\* drawn, and the loop is left after index stopId
PlotStep ==
    /\ at = "plot"
    /\ idx < Len(results)
    /\ IF idx < startId
       THEN /\ idx' = idx + 1
            /\ UNCHANGED <<at, drawn, rect1, rect2>>
       ELSE LET test_case == results[idx + 1][1]
            IN  /\ rect1' = create_rectangle(test_case[1], test_case[2], test_case[3],
                                             test_case[4], test_case[5], test_case[6], test_case[7])
                /\ rect2' = create_rectangle(test_case[8], test_case[9], test_case[10],
                                             test_case[11], test_case[12], test_case[13], test_case[14])
                /\ drawn' = Append(drawn, idx)
                /\ IF idx = stopId
                   THEN at' = "plotted" /\ idx' = idx
                   ELSE at' = at /\ idx' = idx + 1
    /\ UNCHANGED <<rx, ad, fac, n1, n2, test_cases, results, startId, stopId, out, html, tested, run, first>>
    /\ UNCHANGED pair

\* enumerate(results) is exhausted
PlotEnd ==
    /\ at = "plot"
    /\ idx = Len(results)
    /\ at' = "plotted"
    /\ UNCHANGED <<rx, ad, fac, n1, n2, idx, test_cases, results, startId, stopId, out, drawn, html, tested, run, first>>
    /\ UNCHANGED <<pair, rect1, rect2>>

\* the figure is written to the html file; the report loop begins
WriteHtml ==
    /\ at = "plotted"
    /\ html' = drawn
    /\ idx' = 0
    /\ at' = "report"
    /\ UNCHANGED <<rx, ad, fac, n1, n2, test_cases, results, startId, stopId, out, drawn, tested, run, first>>
    /\ UNCHANGED <<pair, rect1, rect2>>

\* the line printed for index i
Line(i) ==
    <<"Test case", i + 1, IF results[i + 1][2] THEN "Overlap" ELSE "No Overlap">>

\* the report loop testing "i == stopId" before it prints
ReportStep_break_first ==
    /\ at = "report"
    /\ idx < Len(results)
    /\ IF idx < startId
       THEN /\ idx' = idx + 1
            /\ UNCHANGED <<at, out>>
       ELSE IF idx = stopId
            THEN at' = "exit" /\ UNCHANGED <<idx, out>>
            ELSE at' = at /\ idx' = idx + 1 /\ out' = Append(out, Line(idx))
    /\ UNCHANGED <<rx, ad, fac, n1, n2, test_cases, results, startId, stopId, drawn, html, tested, run, first>>
    /\ UNCHANGED <<pair, rect1, rect2>>

\* the report loop testing "i == stopId" before "i < startId"
ReportStep_break_before_skip ==
    /\ at = "report"
    /\ idx < Len(results)
    /\ IF idx = stopId
       THEN /\ at' = "exit" /\ idx' = idx
            /\ IF idx < startId THEN out' = out ELSE out' = Append(out, Line(idx))
       ELSE /\ at' = at /\ idx' = idx + 1
            /\ IF idx < startId THEN out' = out ELSE out' = Append(out, Line(idx))
    /\ UNCHANGED <<rx, ad, fac, n1, n2, test_cases, results, startId, stopId, drawn, html, tested, run, first>>
    /\ UNCHANGED <<pair, rect1, rect2>>

\* one turn of the report loop of __main__: below startId nothing is done;
\* otherwise the line is printed, and the loop is left after index stopId
ReportStep ==
    /\ at = "report"
    /\ idx < Len(results)
    /\ IF idx < startId
       THEN /\ idx' = idx + 1
            /\ UNCHANGED <<at, out>>
       ELSE /\ out' = Append(out, Line(idx))
            /\ IF idx = stopId
               THEN at' = "exit" /\ idx' = idx
               ELSE at' = at /\ idx' = idx + 1
    /\ UNCHANGED <<rx, ad, fac, n1, n2, test_cases, results, startId, stopId, drawn, html, tested, run, first>>
    /\ UNCHANGED <<pair, rect1, rect2>>

\* enumerate(results) is exhausted: the program ends
ReportEnd ==
    /\ at = "report"
    /\ idx = Len(results)
    /\ at' = "exit"
    /\ UNCHANGED <<rx, ad, fac, n1, n2, idx, test_cases, results, startId, stopId, out, drawn, html, tested, run, first>>
    /\ UNCHANGED <<pair, rect1, rect2>>

NextMain ==
    \/ BaselineAppend
    \/ RightOfCentre
    \/ LeftOfCentre
    \/ BelowCentre
    \/ MirroredAppend
    \/ SweepSetup
    \/ SweepNext
    \/ SweepAppend
    \/ SweepDone
    \/ Classify
    \/ Return
    \/ Rerun
    \/ CallPlot
    \/ PlotStep
    \/ PlotEnd
    \/ WriteHtml
    \/ ReportStep
    \/ ReportEnd

SpecMain == InitMain /\ [][NextMain]_vars

\* the program is not held up: a step that can be taken is taken
FairMain == SpecMain /\ WF_vars(NextMain)

---------------------------------------------------------------------------
(* Vocabulary of the properties.                                           *)

\* The results are written once and never changed, so each property is
\* stated for the state in which its last result has just been written.

\* the polygons have been built
Built == pc = "exact"

\* overlap has returned
ExactKnown == pc = "heur"

\* overlap and is_overlap have returned
HeurKnown == pc = "swap"

\* is_overlap has returned for both orders of the arguments
SwapKnown == pc = "self"

\* is_overlap(A, A) has returned
SelfKnown == pc = "grow"

\* is_overlap has returned for the enlarged rectangle
BigKnown == pc = "done"

\* the global point p (quarter units) in the local frame of r (eighth units):
\* translated by -center, rotated by -heading
Local(p, r) ==
    LET dx == Sub(p[1], Z(2 * r.cx))
        dy == Sub(p[2], Z(2 * r.cy))
    IN  << Add(Mul(dx, Cos2(r.t)), Mul(dy, Sin2(r.t))),
           Sub(Mul(dy, Cos2(r.t)), Mul(dx, Sin2(r.t))) >>

\* the local point q (eighth units) lies in the closed box
\* [-lr, lf] x [-wr, wl] of r
InBox(q, r) ==
    /\ Sgn(Sub(q[1], Z(-4 * r.lr))) >= 0
    /\ Sgn(Sub(Z(4 * r.lf), q[1])) >= 0
    /\ Sgn(Sub(q[2], Z(-4 * r.wr))) >= 0
    /\ Sgn(Sub(Z(4 * r.wl), q[2])) >= 0

\* some corner of the polygon P lies in the box of r
CornerIn(P, r) == \E i \in 1..4 : InBox(Local(P[i], r), r)

\* the box of r holds at least one point
NotInverted(r) == r.lf + r.lr >= 0 /\ r.wl + r.wr >= 0

---------------------------------------------------------------------------
C2_Symmetry == SwapKnown => (heur = heurSwap)

\* C2 witness: both calls made on two different rectangles, the overlap
\* found in one direction only.
C2_Witness ==
    /\ SwapKnown /\ heurSwap = TRUE
    /\ a # b
    /\ CornerIn(rect1, b)
    /\ ~CornerIn(rect2, a)

C4_MonotoneAlways == (BigKnown /\ heur = TRUE) => heurBig = TRUE

\* C4 as amended: if a corner of A lies in B's box and B' is B with all four
\* extents strictly larger, is_overlap(A,B') is true.
C4_Monotone == (BigKnown /\ CornerIn(rect1, b)) => heurBig = TRUE

\* C4 witness: a corner of A in B's box, B enlarged and classified again.
C4_Witness ==
    /\ BigKnown /\ heurBig = TRUE
    /\ CornerIn(rect1, b)
    /\ ~CornerIn(rect2, a)
    /\ b2.lf > b.lf /\ b2.wl > b.wl /\ b2.lr > b.lr /\ b2.wr > b.wr
    /\ a.t # b.t

\* both rectangles unrotated, B's rear edge on the line of A's front edge,
\* and the two edges meeting on that line
SharedEdge ==
    /\ a.t = 0 /\ b.t = 0
    /\ NotInverted(a) /\ NotInverted(b)
    /\ b.cx - b.lr = a.cx + a.lf
    /\ b.cy - b.wr <= a.cy + a.wl
    /\ a.cy - a.wr <= b.cy + b.wl

\* the local point q (eighth units) lies on an edge of the box of r
OnBoxEdge(q, r) ==
    /\ InBox(q, r)
    /\ \/ q[1] = Z(-4 * r.lr)
       \/ q[1] = Z(4 * r.lf)
       \/ q[2] = Z(-4 * r.wr)
       \/ q[2] = Z(4 * r.wl)

UnitSquare(r) ==
    /\ r.lf \in {1, 2}
    /\ r.wl = r.lf /\ r.lr = r.lf /\ r.wr = r.lf

\* two equal squares, headings 45 and -45 degrees
DiagonalSquares(r, s) ==
    /\ UnitSquare(r) /\ UnitSquare(s) /\ r.lf = s.lf
    /\ r.t = 45 /\ s.t = -45

\* two equal squares about one center, headings 0 and 45 degrees
StarSquares(r, s) ==
    /\ UnitSquare(r) /\ UnitSquare(s) /\ r.lf = s.lf
    /\ r.t = 0 /\ s.t = 45
    /\ r.cx = s.cx /\ r.cy = s.cy

\* the offsets tried for the second square
FarOffsets == (-(3 * MaxOff))..(3 * MaxOff)

C6_DiagonalOverlapSeen ==
    HeurKnown /\ DiagonalSquares(a, b) /\ a.cx # b.cx /\ exact = TRUE

\* squares at headings 45 and -45 degrees that are apart
C6_DiagonalApartSeen ==
    HeurKnown /\ DiagonalSquares(a, b) /\ exact = FALSE

\* an edge of P and an edge of Q have a point in common
EdgesCross(P, Q) ==
    \E i \in 1..4 : \E j \in 1..4 :
        SegmentsMeet(P[i], P[Succ4(i)], Q[j], Q[Succ4(j)])

\* no corner of either polygon lies in the region of the other
NoCornerInside(P, Q) ==
    /\ \A i \in 1..4 : ~Covers(Q, P[i])
    /\ \A j \in 1..4 : ~Covers(P, Q[j])

\* the rectangles meet edge to edge with no corner of either in the other
BlindSpot == EdgesCross(rect1, rect2) /\ NoCornerInside(rect1, rect2)

Separated(P, Q) ==
    \E R \in {P, Q} : \E i \in 1..4 :
        LET u == R[i]
            v == R[Succ4(i)]
        IN  \/ \A k \in 1..4 : \A l \in 1..4 :
                  Less(Cross(u, v, P[k]), Cross(u, v, Q[l]))
            \/ \A k \in 1..4 : \A l \in 1..4 :
                  Less(Cross(u, v, Q[l]), Cross(u, v, P[k]))

\* a corner of P is a corner of Q or lies on an edge of Q
Touches(P, Q) ==
    \E i \in 1..4 : \E j \in 1..4 :
        \/ P[i] = Q[j]
        \/ /\ Sgn(Cross(Q[j], Q[Succ4(j)], P[i])) = 0
           /\ OnSegment(Q[j], Q[Succ4(j)], P[i])

\* C8: overlap(A,B) is true exactly when the closed regions of the two
\* rectangles share a point (no axis separates them); rectangles touching at
\* a corner or along an edge count as overlapping.
C8_ExactSharesPoint ==
    ExactKnown =>
        /\ exact = ~Separated(rect1, rect2)
        /\ (Touches(rect1, rect2) \/ Touches(rect2, rect1)) => exact = TRUE

\* C8 witness: two unrotated rectangles of positive extents whose only
\* common point is one corner, classified as overlapping.
C8_Witness ==
    /\ ExactKnown /\ exact = TRUE
    /\ a.t = 0 /\ b.t = 0
    /\ a.lf > 0 /\ a.lr > 0 /\ a.wl > 0 /\ a.wr > 0
    /\ b.lf > 0 /\ b.lr > 0 /\ b.wl > 0 /\ b.wr > 0
    /\ b.cx - b.lr = a.cx + a.lf
    /\ b.cy - b.wr = a.cy + a.wl

\* C9: on the unit-extent rectangles at (0,0) and (100,100), heading 0, both
\* is_overlap and overlap return false.
C9_DisjointBaseline ==
    (HeurKnown /\ a = BaselineA /\ b = BaselineB) =>
        (heur = FALSE /\ exact = FALSE)

\* C9 witness: the baseline pair, classified by both testers.
C9_Witness ==
    /\ HeurKnown
    /\ a.cx = 0 /\ a.cy = 0 /\ b.cx = 200 /\ b.cy = 200
    /\ a.t = 0 /\ b.t = 0
    /\ UnitSquare(a) /\ UnitSquare(b) /\ a.lf = 2 /\ b.lf = 2
    /\ heur = FALSE /\ exact = FALSE

\* the local corners of r in the order rear-right, front-right, front-left,
\* rear-left
FixedOrder(r) ==
    << <<-r.lr, -r.wr>>, <<r.lf, -r.wr>>, <<r.lf, r.wl>>, <<-r.lr, r.wl>> >>

\* the polygon P lists the corners of r in the fixed order: corner i, taken
\* back to r's frame, is the i-th local corner, and at heading 0 it is the
\* center plus the i-th local corner
InFixedOrder(P, r) ==
    \A i \in 1..4 :
        LET x == FixedOrder(r)[i][1]
            y == FixedOrder(r)[i][2]
        IN  /\ Local(P[i], r) = <<Z(4 * x), Z(4 * y)>>
            /\ r.t = 0 => P[i] = <<Z(2 * (r.cx + x)), Z(2 * (r.cy + y))>>

\* C10: create_rectangle returns the corners rear-right, front-right,
\* front-left, rear-left, each the local point (-lr,-wr), (lf,-wr), (lf,wl),
\* (-lr,wl) rotated by the heading and translated by the center; at heading
\* 0 they are (cx-lr, cy-wr), (cx+lf, cy-wr), (cx+lf, cy+wl), (cx-lr, cy+wl).
C10_CornerOrder ==
    Built => (InFixedOrder(rect1, a) /\ InFixedOrder(rect2, b))

\* C10 witness: polygons built for an unrotated and a rotated rectangle
\* whose four extents all differ.
C10_Witness ==
    /\ Built
    /\ a.t = 0 /\ b.t = -135
    /\ Cardinality({a.lf, a.wl, a.lr, a.wr}) = 4
    /\ Cardinality({b.lf, b.wl, b.lr, b.wr}) = 4
    /\ rect1[1] = <<Z(2 * (a.cx - a.lr)), Z(2 * (a.cy - a.wr))>>
    /\ rect1[3] = <<Z(2 * (a.cx + a.lf)), Z(2 * (a.cy + a.wl))>>

\* the call transform_and_check(A, B): some corner of A in B's box
CornerOfAInB ==
    transform_and_check(a.cx, a.cy, a.t, a.lf, a.wl, a.lr, a.wr,
                        b.cx, b.cy, b.t, b.lf, b.wl, b.lr, b.wr)

\* C11: extents are used as given, negative ones included: the polygon of
\* a rectangle B with an inverted box (lf < -lr or wl < -wr) has its corners
\* at (-lr,-wr), (lf,-wr), (lf,wl), (-lr,wl) all the same, the direction
\* "corner of A inside B" is false for every A, and is_overlap(A,B) is true
\* only through a corner of B in A's box.
C11_NeverClamped ==
    (HeurKnown /\ ~NotInverted(b)) =>
        /\ InFixedOrder(rect2, b)
        /\ ~CornerOfAInB
        /\ heur = CornerIn(rect2, a)

\* C11 witness: B's box is inverted, a corner of A lies in the region of
\* B's polygon (the exact tester reports overlap), and is_overlap is false.
C11_Witness ==
    /\ HeurKnown
    /\ ~NotInverted(b) /\ NotInverted(a)
    /\ \E i \in 1..4 : Covers(rect2, rect1[i])
    /\ heur = FALSE /\ exact = TRUE

---------------------------------------------------------------------------
(* Vocabulary of the properties of the program.                            *)

\* caller has returned
CallerReturned == at = "returned"

\* the two rectangles of a scenario
RectA(c) == Rect(c[1], c[2], c[3], <<c[4], c[5], c[6], c[7]>>)

RectB(c) == Rect(c[8], c[9], c[10], <<c[11], c[12], c[13], c[14]>>)

\* a corner of either rectangle of the scenario lies in the other's box
CornerContained(c) ==
    \/ CornerIn(Polygon(RectA(c)), RectB(c))
    \/ CornerIn(Polygon(RectB(c)), RectA(c))

\* C12: results pairs the scenarios with their verdicts in generation
\* order: at every moment results[k] is (test_cases[k], is_overlap of the 14
\* parameters of test_cases[k]) for each k it holds, and when caller
\* returns results is as long as test_cases.
C12_ResultsInOrder ==
    /\ at \in {"classify", "returned"} =>
            /\ Len(results) <= Len(test_cases)
            /\ \A k \in 1..Len(results) :
                    /\ results[k][1] = test_cases[k]
                    /\ Len(results[k][1]) = 14
                    /\ results[k][2] = CornerContained(test_cases[k])
    /\ CallerReturned => Len(results) = Len(test_cases)

\* C12 witness: caller has returned all its scenarios, among them pairs at
\* different headings, each with its own verdict.
C12_Witness ==
    /\ CallerReturned
    /\ Len(results) = Len(lsx) * 35
    /\ results[1][1] # results[2][1]
    /\ results[Len(results)][1][3] # results[Len(results)][1][10]
    /\ results[Len(results)][2] = TRUE

\* the list s begins the list t, element for element
Prefix(s, t) == Len(s) <= Len(t) /\ \A k \in 1..Len(s) : s[k] = t[k]

SweepPairs ==
    LET hs == <<-180, -135, -90, -45, 0, 45, 90, 135>>
        offs == <<0, 10, 20, 30>>
        all == [p \in 1..32 |-> <<hs[((p - 1) \div 4) + 1], offs[((p - 1) % 4) + 1]>>]
    IN  SelectSeq(all, LAMBDA q : q # <<0, 0>>)

\* the scenarios that precede the sweep: four blocks of 11
BeforeSweep == 4 * Len(lsx)

\* scenario c is preset i: the first rectangle at ry + lsy[i] with the
\* extents (lf1, wl1, lr1, wr1), the second with those extents plus the
\* deltas of preset i
IsPreset(c, i) ==
    /\ c[2] = ry + lsy[i + 1]
    /\ <<c[4], c[5], c[6], c[7]>> = <<lf1, wl1, lr1, wr1>>
    /\ <<c[11], c[12], c[13], c[14]>> =
            <<lf1 + lfs2[i + 1], wl1 + wls2[i + 1], lr1 + lrs2[i + 1], wr1 + wrs2[i + 1]>>

\* C14: after the four baseline blocks test_cases holds, for each of the 31
\* pairs (A heading -180..135 step 45 outermost, offset 0, 10, 20, 30
\* innermost, (0, 0) left out) in that order, the 11 presets in their order
\* with A's heading and B's heading = A's heading + offset, and nothing else.
C14_HeadingSweep ==
    at \in {"classify", "returned"} =>
        /\ Len(SweepPairs) = 31
        /\ Len(test_cases) = BeforeSweep + 31 * 11
        /\ \A p \in 1..31 : \A i \in 0..10 :
                LET c == test_cases[BeforeSweep + 11 * (p - 1) + i + 1]
                IN  /\ c[3] = SweepPairs[p][1]
                    /\ c[10] = SweepPairs[p][1] + SweepPairs[p][2]
                    /\ IsPreset(c, i)

\* C14 witness: caller has returned; the sweep begins with the pair
\* (-180, -180), passes from (-45, -15) to (0, 10) and ends with (135, 165).
C14_Witness ==
    /\ CallerReturned
    /\ test_cases[BeforeSweep + 1][3] = -180 /\ test_cases[BeforeSweep + 1][10] = -180
    /\ test_cases[BeforeSweep + 11 * 16][3] = -45 /\ test_cases[BeforeSweep + 11 * 16][10] = -15
    /\ test_cases[BeforeSweep + 11 * 16 + 1][3] = 0 /\ test_cases[BeforeSweep + 11 * 16 + 1][10] = 10
    /\ test_cases[Len(test_cases)][3] = 135 /\ test_cases[Len(test_cases)][10] = 165

\* the displacement of B's center from A's center in scenario c
Displacement(c) == <<c[8] - c[1], c[9] - c[2]>>

\* C15: the first four blocks of 11 scenarios have heading 0 for both
\* rectangles; B's center is A's center plus (lsx[i], 0) in block 1,
\* (lsx[i], +1) in block 2, (lsx[i], -1) in block 3 and (-lsx[i], 0) in
\* block 4 (lengths in tenths: 1 is 10).
C15_BaselineBlocks ==
    at \in {"sweep", "classify", "returned"} =>
        \A i \in 0..10 :
            LET c1 == test_cases[i + 1]
                c2 == test_cases[11 + i + 1]
                c3 == test_cases[22 + i + 1]
                c4 == test_cases[33 + i + 1]
            IN  /\ \A c \in {c1, c2, c3, c4} : c[3] = 0 /\ c[10] = 0
                /\ Displacement(c1) = <<lsx[i + 1], 0>>
                /\ Displacement(c2) = <<lsx[i + 1], 10>>
                /\ Displacement(c3) = <<lsx[i + 1], -10>>
                /\ Displacement(c4) = <<-lsx[i + 1], 0>>

\* C15 witness: caller has returned; preset 8 (lsx = 3) has B's center 3 to
\* the front of A's in block 1, 3 to the front and 1 to the left in block 2,
\* 3 to the front and 1 to the right in block 3, and 3 to the rear in block 4.
C15_Witness ==
    /\ CallerReturned
    /\ Displacement(test_cases[9]) = <<30, 0>>
    /\ Displacement(test_cases[20]) = <<30, 10>>
    /\ Displacement(test_cases[31]) = <<30, -10>>
    /\ Displacement(test_cases[42]) = <<-30, 0>>

\* the window lies inside the results: 0 <= startId <= stopId < len(results)
WindowInside ==
    /\ 0 <= startId /\ startId <= stopId /\ stopId < Len(results)

\* the lines the report loop has printed, in the order printed
ReportLines == SelectSeq(out, LAMBDA e : e[1] = "Test case")

\* the indices startId..stopId in increasing order
WindowIndices == [k \in 1..(stopId - startId + 1) |-> startId + k - 1]

\* C16: with 0 <= startId <= stopId < len(results), when the program ends
\* the report loop has printed exactly one line for each index i of
\* startId..stopId, in increasing order and for no other index: "Test case
\* i+1" with "Overlap" when results[i] is true and "No Overlap" when it is
\* false; plot_all_rectangles has drawn the same indices.
C16_ReportWindow ==
    (at = "exit" /\ WindowInside) =>
        /\ Len(ReportLines) = stopId - startId + 1
        /\ \A k \in 1..Len(ReportLines) :
                LET i == startId + k - 1
                IN  ReportLines[k] =
                        <<"Test case", i + 1,
                          IF results[i + 1][2] = TRUE THEN "Overlap" ELSE "No Overlap">>
        /\ drawn = WindowIndices
        /\ html = drawn

\* C16 witness: the program has ended with a window that begins after the
\* first result and ends before the last; the loops skipped index 0, printed
\* and drew the window, and left at stopId.
C16_Witness ==
    /\ at = "exit"
    /\ WindowInside
    /\ 0 < startId /\ startId < stopId /\ stopId < Len(results) - 1
    /\ idx = stopId
    /\ Len(drawn) = stopId - startId + 1
    /\ ReportLines[1][2] = startId + 1

\* caller is generating or classifying
Generating == at \in {"block1", "block2", "block3", "block4", "sweep", "classify"}

\* C17: while caller runs nothing is written to standard output, and the
\* scenarios already appended to test_cases are not changed: the list only
\* grows at its end.
C17_CallerPure ==
    [][Generating => (out' = out /\ Prefix(test_cases, test_cases'))]_vars

\* the four extents of the second rectangle of scenario c
ExtentsB(c) == {c[11], c[12], c[13], c[14]}

\* C18 as stated: among the scenarios caller returns there are some whose
\* rectangle B has lf, wl, lr or wr below zero.
C18_SomeNegativeExtent ==
    CallerReturned =>
        \E k \in 1..Len(test_cases) : \E e \in ExtentsB(test_cases[k]) : e < 0

\* C18 as amended: several presets have a negative delta in lfs2, wls2,
\* lrs2 or wrs2, which makes B's extent smaller than A's, but every extent of
\* every rectangle caller generates is positive: the least are lf 0.2,
\* wl 0.5, lr 0.2 and wr 0.3 (in tenths: 2, 5, 2, 3).
C18_ExtentsPositive ==
    at \in {"classify", "returned"} =>
        /\ \E i \in 1..Len(lsx) : lfs2[i] < 0 \/ wls2[i] < 0 \/ lrs2[i] < 0 \/ wrs2[i] < 0
        /\ \A k \in 1..Len(test_cases) :
                LET c == test_cases[k]
                IN  /\ c[4] > 0 /\ c[5] > 0 /\ c[6] > 0 /\ c[7] > 0
                    /\ c[11] >= 2 /\ c[12] >= 5 /\ c[13] >= 2 /\ c[14] >= 3

\* C18 witness: caller has returned a scenario in which B's front, left
\* and rear extents are smaller than A's, the front and rear ones the least
\* generated, 0.2 (preset 7 of the first block), and one in which B's right
\* extent is the least generated, 0.3 (preset 3).
C18_Witness ==
    /\ CallerReturned
    /\ \A j \in 11..13 : test_cases[8][j] < test_cases[8][j - 7]
    /\ test_cases[8][11] = 2 /\ test_cases[8][13] = 2
    /\ test_cases[4][14] = 3

\* the number of corners of direction d among those examined
Tests(d) == Cardinality({k \in 1..Len(tested) : tested[k][1] = d})

\* is_overlap has just classified test_cases[Len(results)]
JustClassified == at \in {"classify", "returned"} /\ Len(results) > 0

\* the call of is_overlap just made returned a boolean after at most 4
\* corner tests per direction, 8 in all; it ran the second direction only
\* when no corner of A lies in B's box, and it stopped at the first corner
\* found: a verdict of false took all 8 tests
BoundedCall ==
    LET c == test_cases[Len(results)]
        result == results[Len(results)][2]
    IN  /\ result \in BOOLEAN
        /\ Len(tested) >= 1 /\ Len(tested) <= 8
        /\ Tests(1) <= 4 /\ Tests(2) <= 4
        /\ Tests(1) + Tests(2) = Len(tested)
        /\ Tests(2) > 0 <=> ~CornerIn(Polygon(RectA(c)), RectB(c))
        /\ Tests(2) > 0 => Tests(1) = 4
        /\ result = FALSE => Len(tested) = 8

\* the steps of caller never take anything back: the lists only grow
SinglePass ==
    (Generating /\ at' # "block1") =>
        /\ Len(test_cases') >= Len(test_cases)
        /\ Len(test_cases') <= Len(test_cases) + 1
        /\ Len(results') <= Len(results) + 1

\* the scenarios caller generates: Len(lsx) presets for each of the 4
\* blocks and of the 31 pairs the sweep does not skip
Scenarios == Len(lsx) * (4 + Len(os1) * Len(os2) - 1)

\* the statements caller has still to run at most: the turns left of the
\* loop it is in and one step out of it, then the loops that follow
Remaining ==
    LET block == (Len(lsx) - idx) + 1
        sweep == (Len(os1) * Len(os2) - ((n1 - 1) * Len(os2) + n2)) * (Len(lsx) + 1) + block
        classification == Scenarios + 1
        after(k) == (4 - k) * (Len(lsx) + 1) + Len(os1) * Len(os2) * (Len(lsx) + 1) + 1 + classification
    IN  CASE at = "block1" -> block + after(1)
          [] at = "block2" -> block + after(2)
          [] at = "block3" -> block + after(3)
          [] at = "block4" -> block + after(4)
          [] at = "sweep" -> sweep + classification
          [] at = "classify" -> (Len(test_cases) - Len(results)) + 1
          [] OTHER -> 0

\* every step of caller uses up one of the statements it has still to run
Progress == Generating => (Remaining' < Remaining /\ Remaining' >= 0)

\* C19: every call of is_overlap returns a boolean after at most 8 corner
\* tests, 4 per direction, the second direction run only when the first
\* found nothing; caller passes once over its tables, each step bringing it
\* nearer to its return, and returns the 385 scenarios with their verdicts.
C19_TotalAndTerminating ==
    /\ [](JustClassified => BoundedCall)
    /\ [][SinglePass]_vars
    /\ [][Progress]_vars
    /\ [](CallerReturned => Len(test_cases) = Scenarios /\ Len(results) = Scenarios)

\* C19 witness: a call of is_overlap that found its corner at the eighth
\* test, the fourth of the second direction.
C19_Witness ==
    /\ JustClassified
    /\ Len(tested) = 8
    /\ Tests(1) = 4 /\ Tests(2) = 4
    /\ results[Len(results)][2] = TRUE

\* the rectangle whose corners direction d of the call examines: the first
\* direction takes the corners of A, the second those of B
Subject(c, d) == IF d = 1 THEN RectA(c) ELSE RectB(c)

\* the local corner an entry of tested names
Corner(e) == <<e[3], e[4]>>

\* C20 as stated: the i-th corner is_overlap examines is the i-th corner of
\* create_rectangle's list: rear-right, front-right, front-left, rear-left.
C20_SameOrderAsCreateRectangle ==
    JustClassified =>
        \A k \in 1..Len(tested) :
            Corner(tested[k]) = FixedOrder(Subject(test_cases[Len(results)], tested[k][1]))[tested[k][2]]

\* C20: is_overlap examines the corners in create_rectangle's cyclic order
\* but starts one corner earlier, at the rear-left: rear-left, rear-right,
\* front-right, front-left; the i-th corner examined is the corner
\* ((i + 2) % 4) + 1 of create_rectangle's list, and the corners of each
\* direction are taken one after the other from the first.
C20_OrderFromRearLeft ==
    JustClassified =>
        \A k \in 1..Len(tested) :
            LET d == tested[k][1]
                i == tested[k][2]
                r == Subject(test_cases[Len(results)], d)
            IN  /\ Corner(tested[k]) = FixedOrder(r)[((i + 2) % 4) + 1]
                /\ i = 1 => Corner(tested[k]) = <<-r.lr, r.wl>>
                /\ i = IF d = 1 THEN k ELSE k - Tests(1)

\* C20 witness: a call at a heading other than 0 in which all four corners
\* of A were examined, and then the first of B.
C20_Witness ==
    /\ JustClassified
    /\ test_cases[Len(results)][3] # 0
    /\ Tests(1) = 4 /\ Tests(2) = 1

\* no extent of r is negative
NonNegative(r) == r.lf >= 0 /\ r.wl >= 0 /\ r.lr >= 0 /\ r.wr >= 0

SweepAppended ==
    /\ at = "sweep" /\ n2 > 0 /\ idx > 0
    /\ ~(os1[n1] = 0 /\ os2[n2] = 0)

\* the scenario the final else of the chain appends for preset i
Uncorrected(i) == scenario(o1, rx + lsx[i + 1], ry + fac * ad + lsy[i + 1], o2, i)

\* the positions in which two lists of 14 parameters differ
Differing(c, d) == {j \in 1..14 : c[j] # d[j]}

\* C22: for the heading pair of the sweep and every preset at most one
\* condition of the chain holds, so the correction is that of any branch
\* whose condition holds; the scenario appended differs from the uncorrected
\* one in cx2 alone or in cy2 alone, and only when a branch was taken.
C22_ExclusiveCorrections ==
    SweepAppended =>
        /\ \A i \in 0..(Len(lsx) - 1) :
              /\ Cardinality(taken(o1, o2, i)) <= 1
              /\ \A k \in taken(o1, o2, i) :
                    /\ correction(o1, o2, i).dx = branches[k].dx
                    /\ correction(o1, o2, i).dy = branches[k].dy
        /\ LET c == test_cases[Len(test_cases)]
               d == Differing(c, Uncorrected(idx - 1))
           IN  /\ d \in {{}, {8}, {9}}
               /\ d # {} => taken(o1, o2, idx - 1) # {}
               /\ c[8] = Uncorrected(idx - 1)[8] + correction(o1, o2, idx - 1).dx
               /\ c[9] = Uncorrected(idx - 1)[9] + correction(o1, o2, idx - 1).dy

\* C22 witness: the sweep at (90, 90) has appended preset 2 with the third
\* of the three branches of that pair, which moves cy2 by -0.5 and leaves
\* cx2 alone.
C22_Witness ==
    /\ SweepAppended
    /\ o1 = 90 /\ o2 = 90 /\ idx = 3
    /\ Differing(test_cases[Len(test_cases)], Uncorrected(2)) = {9}
    /\ test_cases[Len(test_cases)][9] = ry + lsy[3] - 5

\* stopId is no index the loops reach: it lies below startId or past the
\* last result
WindowOpen == stopId < startId \/ stopId > Len(results) - 1

\* the indices startId..len(results)-1 in increasing order
TailIndices == [k \in 1..(Len(results) - startId) |-> startId + k - 1]

\* C23: with stopId below startId or past the last index neither loop takes
\* its break: both run to the end of results, and the report prints and the
\* figure holds every index from startId to n-1 in order.  caller returns
\* startId = 0 and stopId = n, for which all n scenarios are reported.
C23_OpenWindow ==
    /\ CallerReturned => (startId = 0 /\ stopId = Len(results))
    /\ (at \in {"plotted", "report", "exit"} /\ WindowOpen) => drawn = TailIndices
    /\ (at = "exit" /\ WindowOpen) =>
            /\ idx = Len(results)
            /\ html = TailIndices
            /\ ReportLines = [k \in 1..(Len(results) - startId) |-> Line(startId + k - 1)]
            /\ (startId = 0 /\ stopId = Len(results)) => Len(ReportLines) = Len(results)

\* C23 witness: the program has ended with stopId = 0 below startId = 1: the
\* window is not empty, all results but the first are reported.
C23_Witness ==
    /\ at = "exit"
    /\ startId = 1 /\ stopId = 0
    /\ Len(ReportLines) = Len(results) - 1
    /\ ReportLines[1][2] = 2
    /\ Len(drawn) = Len(results) - 1

\* the rx of the 35 blocks as the claim lists them, in tenths: 2, 14, 26, 48
\* and then 60, 72, ..., 420
BlockRx == <<20, 140, 260, 480>> \o [j \in 1..31 |-> 600 + 120 * (j - 1)]

\* the center of rectangle A in scenario c
CenterA(c) == <<c[1], c[2]>>

\* C24: caller returns 385 scenarios of 14 parameters each; scenario k (from
\* 0) is preset k mod 11 of block k div 11, with A's center at
\* (rx, 4 + lsy[k mod 11]) for the rx of its block: 2, 14, 26, 48, 60, 72,
\* ..., 420; the 385 centers of A are pairwise distinct.
C24_ScenarioLayout ==
    CallerReturned =>
        /\ Len(test_cases) = 385
        /\ Len(BlockRx) = 35 /\ BlockRx[35] = 4200
        /\ \A k \in 0..384 :
              LET c == test_cases[k + 1]
              IN  /\ Len(c) = 14
                  /\ IsPreset(c, k % 11)
                  /\ CenterA(c) = <<BlockRx[(k \div 11) + 1], 40 + lsy[(k % 11) + 1]>>
        /\ Cardinality({CenterA(test_cases[k]) : k \in 1..Len(test_cases)}) = 385

\* C24 witness: caller has returned; rx steps from 26 to 48 between the third
\* and the fourth block, from 48 to 60 into the sweep, and ends at 420.
C24_Witness ==
    /\ CallerReturned
    /\ CenterA(test_cases[33]) = <<260, 740>>
    /\ CenterA(test_cases[34]) = <<480, 40>>
    /\ CenterA(test_cases[45]) = <<600, 40>>
    /\ CenterA(test_cases[385]) = <<4200, 740>>

\* the extents (front, left, rear, right) of the two rectangles of scenario c
ExtentsOfA(c) == <<c[4], c[5], c[6], c[7]>>

ExtentsOfB(c) == <<c[11], c[12], c[13], c[14]>>

\* C25: in every scenario caller returns A has the extents (1, 1, 1, 2), and
\* B's extents are those of the same preset in the first block: A's extents
\* plus the preset's deltas, whatever the block, the headings and the
\* correction.
C25_ExtentsByPreset ==
    CallerReturned =>
        \A k \in 0..(Len(test_cases) - 1) :
            LET c == test_cases[k + 1]
                i == k % 11
            IN  /\ ExtentsOfA(c) = <<10, 10, 10, 20>>
                /\ ExtentsOfB(c) = ExtentsOfB(test_cases[i + 1])
                /\ ExtentsOfB(c) = <<10 + lfs2[i + 1], 10 + wls2[i + 1], 10 + lrs2[i + 1], 20 + wrs2[i + 1]>>

\* C25 witness: caller has returned; scenario 142, preset 10 of the pair
\* (-90, -90), has B's center moved by the correction -3.5 and B's extents
\* (5, 1, 5, 1) as preset 10 of the first block has.
C25_Witness ==
    /\ CallerReturned
    /\ test_cases[143][3] = -90 /\ test_cases[143][10] = -90
    /\ test_cases[143][8] = test_cases[143][1] + lsx[11] - 35
    /\ ExtentsOfB(test_cases[143]) = <<50, 10, 50, 10>>
    /\ ExtentsOfB(test_cases[11]) = <<50, 10, 50, 10>>
    /\ ExtentsOfA(test_cases[143]) = <<10, 10, 10, 20>>

\* is_overlap has returned for the pair and for its half-turned twin
TurnedKnown == pc = "turned"

\* is_overlap has returned for the pair and for the pair moved
ShiftedKnown == pc = "shifted"

\* C26 as stated: replacing either rectangle by its half-turned twin
\* (heading + 180 degrees, extents (lr, wr, lf, wl)) leaves the result of
\* is_overlap unchanged.
C26_HalfTurn == TurnedKnown => heurTwin = heur

\* C27 as stated: adding the same vector to both centers leaves the result
\* of is_overlap unchanged.
C27_TranslationInvariant == ShiftedKnown => heurTwin = heur

\* overlap(*case), the call commented out in the classification loop
ExactVerdict(case) ==
    overlap(case[1], case[2], case[3], case[4], case[5], case[6], case[7],
            case[8], case[9], case[10], case[11], case[12], case[13], case[14])

\* the scenarios of the first four blocks
BaselineIndices == 1..(4 * Len(lsx))

\* C28: on each scenario of the first four blocks (both headings 0) the
\* heuristic and the exact tester give the same answer, and the result
\* caller stored for it is true.  The two testers are compared on each
\* scenario at the moment the loop has classified it, the stored results
\* in every state.
C28_BaselineAgree ==
    /\ \A k \in BaselineIndices :
            k <= Len(results) =>
                /\ results[k][1][3] = 0 /\ results[k][1][10] = 0
                /\ results[k][2] = TRUE
    /\ (at = "classify" /\ Len(results) \in BaselineIndices) =>
            LET case == results[Len(results)][1]
            IN  /\ case = test_cases[Len(results)]
                /\ ExactVerdict(case) = Verdict(case)
                /\ ExactVerdict(case) = results[Len(results)][2]

\* C28 witness: caller has returned; the last baseline scenario (block 4,
\* preset 10) is stored as overlapping and the exact tester says so too
C28_Witness ==
    /\ CallerReturned
    /\ Len(results) > 4 * Len(lsx)
    /\ results[4 * Len(lsx)][2] = TRUE
    /\ ExactVerdict(test_cases[4 * Len(lsx)]) = TRUE

---------------------------------------------------------------------------
(* The reference table at the end of overlapcheck.py, one row per line as  *)
(* in the source, without the last column (TYP).  The table writes its     *)
(* numbers with up to two decimals; a number is given here in hundredths   *)
(* (03.00f is 300, 0.50f is 50, 3.14f is 314).  The columns are those of  *)
(* a scenario: cx1, cy1, heading 1 (radians), lf1, wl1, lr1, wr1, cx2,     *)
(* cy2, heading 2 (radians), lf2, wl2, lr2, wr2.                           *)

t == <<
    <<200, 400, 0, 100, 100, 100, 200, 300, 400, 0, 100, 50, 100, 200>>,
    <<200, 1000, 0, 100, 100, 100, 200, 300, 1000, 0, 100, 50, 100, 200>>,
    <<200, 1400, 0, 100, 100, 100, 200, 300, 1400, 0, 100, 50, 50, 50>>,
    <<200, 1800, 0, 100, 100, 100, 200, 300, 1800, 0, 100, 50, 30, 30>>,
    <<200, 2600, 0, 100, 100, 100, 200, 300, 2600, 0, 100, 400, 100, 400>>,
    <<200, 3800, 0, 100, 100, 100, 200, 300, 3800, 0, 100, 500, 100, 500>>,
    <<200, 4800, 0, 100, 100, 100, 200, 300, 4800, 0, 50, 50, 50, 200>>,
    <<200, 5400, 0, 100, 100, 100, 200, 300, 5400, 0, 20, 50, 20, 200>>,
    <<200, 6000, 0, 100, 100, 100, 200, 500, 6000, 0, 300, 100, 300, 100>>,
    <<200, 6600, 0, 100, 100, 100, 200, 600, 6600, 0, 400, 100, 400, 100>>,
    <<200, 7400, 0, 100, 100, 100, 200, 700, 7400, 0, 500, 100, 500, 100>>,
    <<1400, 400, 0, 100, 100, 100, 200, 1500, 500, 0, 100, 50, 100, 200>>,
    <<1400, 1000, 0, 100, 100, 100, 200, 1500, 1100, 0, 100, 50, 100, 200>>,
    <<1400, 1400, 0, 100, 100, 100, 200, 1500, 1500, 0, 100, 50, 50, 50>>,
    <<1400, 1800, 0, 100, 100, 100, 200, 1500, 1900, 0, 100, 50, 30, 30>>,
    <<1400, 2600, 0, 100, 100, 100, 200, 1500, 2700, 0, 100, 400, 100, 400>>,
    <<1400, 3800, 0, 100, 100, 100, 200, 1500, 3900, 0, 100, 500, 100, 500>>,
    <<1400, 4800, 0, 100, 100, 100, 200, 1500, 4900, 0, 50, 50, 50, 200>>,
    <<1400, 5400, 0, 100, 100, 100, 200, 1500, 5500, 0, 20, 50, 20, 200>>,
    <<1400, 6000, 0, 100, 100, 100, 200, 1700, 6100, 0, 300, 100, 300, 100>>,
    <<1400, 6600, 0, 100, 100, 100, 200, 1800, 6700, 0, 400, 100, 400, 100>>,
    <<1400, 7400, 0, 100, 100, 100, 200, 1900, 7500, 0, 500, 100, 500, 100>>,
    <<2600, 400, 0, 100, 100, 100, 200, 2700, 300, 0, 100, 50, 100, 200>>,
    <<2600, 1000, 0, 100, 100, 100, 200, 2700, 900, 0, 100, 50, 100, 200>>,
    <<2600, 1400, 0, 100, 100, 100, 200, 2700, 1300, 0, 100, 50, 50, 50>>,
    <<2600, 1800, 0, 100, 100, 100, 200, 2700, 1700, 0, 100, 50, 30, 30>>,
    <<2600, 2600, 0, 100, 100, 100, 200, 2700, 2500, 0, 100, 400, 100, 400>>,
    <<2600, 3800, 0, 100, 100, 100, 200, 2700, 3700, 0, 100, 500, 100, 500>>,
    <<2600, 4800, 0, 100, 100, 100, 200, 2700, 4700, 0, 50, 50, 50, 200>>,
    <<2600, 5400, 0, 100, 100, 100, 200, 2700, 5300, 0, 20, 50, 20, 200>>,
    <<2600, 6000, 0, 100, 100, 100, 200, 2900, 5900, 0, 300, 100, 300, 100>>,
    <<2600, 6600, 0, 100, 100, 100, 200, 3000, 6500, 0, 400, 100, 400, 100>>,
    <<2600, 7400, 0, 100, 100, 100, 200, 3100, 7300, 0, 500, 100, 500, 100>>,
    <<4800, 400, 0, 100, 100, 100, 200, 4700, 400, 0, 100, 50, 100, 200>>,
    <<4800, 1000, 0, 100, 100, 100, 200, 4700, 1000, 0, 100, 50, 100, 200>>,
    <<4800, 1400, 0, 100, 100, 100, 200, 4700, 1400, 0, 100, 50, 50, 50>>,
    <<4800, 1800, 0, 100, 100, 100, 200, 4700, 1800, 0, 100, 50, 30, 30>>,
    <<4800, 2600, 0, 100, 100, 100, 200, 4700, 2600, 0, 100, 400, 100, 400>>,
    <<4800, 3800, 0, 100, 100, 100, 200, 4700, 3800, 0, 100, 500, 100, 500>>,
    <<4800, 4800, 0, 100, 100, 100, 200, 4700, 4800, 0, 50, 50, 50, 200>>,
    <<4800, 5400, 0, 100, 100, 100, 200, 4700, 5400, 0, 20, 50, 20, 200>>,
    <<4800, 6000, 0, 100, 100, 100, 200, 4500, 6000, 0, 300, 100, 300, 100>>,
    <<4800, 6600, 0, 100, 100, 100, 200, 4400, 6600, 0, 400, 100, 400, 100>>,
    <<4800, 7400, 0, 100, 100, 100, 200, 4300, 7400, 0, 500, 100, 500, 100>>,
    <<6000, 400, 314, 100, 100, 100, 200, 6100, 400, 314, 100, 50, 100, 200>>,
    <<6000, 1000, 314, 100, 100, 100, 200, 6100, 1000, 314, 100, 50, 100, 200>>,
    <<6000, 1400, 314, 100, 100, 100, 200, 6100, 1400, 314, 100, 50, 50, 50>>,
    <<6000, 1800, 314, 100, 100, 100, 200, 6100, 1800, 314, 100, 50, 30, 30>>,
    <<6000, 2600, 314, 100, 100, 100, 200, 6100, 2600, 314, 100, 400, 100, 400>>,
    <<6000, 3800, 314, 100, 100, 100, 200, 6100, 3800, 314, 100, 500, 100, 500>>,
    <<6000, 4800, 314, 100, 100, 100, 200, 6100, 4800, 314, 50, 50, 50, 200>>,
    <<6000, 5400, 314, 100, 100, 100, 200, 6100, 5400, 314, 20, 50, 20, 200>>,
    <<6000, 6000, 314, 100, 100, 100, 200, 6300, 6000, 314, 300, 100, 300, 100>>,
    <<6000, 6600, 314, 100, 100, 100, 200, 6400, 6600, 314, 400, 100, 400, 100>>,
    <<6000, 7400, 314, 100, 100, 100, 200, 6500, 7400, 314, 500, 100, 500, 100>>,
    <<7200, 400, 314, 100, 100, 100, 200, 7300, 400, 297, 100, 50, 100, 200>>,
    <<7200, 1000, 314, 100, 100, 100, 200, 7300, 1000, 297, 100, 50, 100, 200>>,
    <<7200, 1400, 314, 100, 100, 100, 200, 7300, 1400, 297, 100, 50, 50, 50>>,
    <<7200, 1800, 314, 100, 100, 100, 200, 7300, 1800, 297, 100, 50, 30, 30>>,
    <<7200, 2600, 314, 100, 100, 100, 200, 7300, 2600, 297, 100, 400, 100, 400>>,
    <<7200, 3800, 314, 100, 100, 100, 200, 7300, 3800, 297, 100, 500, 100, 500>>,
    <<7200, 4800, 314, 100, 100, 100, 200, 7300, 4800, 297, 50, 50, 50, 200>>,
    <<7200, 5400, 314, 100, 100, 100, 200, 7300, 5400, 297, 20, 50, 20, 200>>,
    <<7200, 6000, 314, 100, 100, 100, 200, 7500, 6000, 297, 300, 100, 300, 100>>,
    <<7200, 6600, 314, 100, 100, 100, 200, 7600, 6600, 297, 400, 100, 400, 100>>,
    <<7200, 7400, 314, 100, 100, 100, 200, 7700, 7400, 297, 500, 100, 500, 100>>,
    <<8400, 400, 314, 100, 100, 100, 200, 8500, 400, 279, 100, 50, 100, 200>>,
    <<8400, 1000, 314, 100, 100, 100, 200, 8500, 1000, 279, 100, 50, 100, 200>>,
    <<8400, 1400, 314, 100, 100, 100, 200, 8500, 1400, 279, 100, 50, 50, 50>>,
    <<8400, 1800, 314, 100, 100, 100, 200, 8500, 1800, 279, 100, 50, 30, 30>>,
    <<8400, 2600, 314, 100, 100, 100, 200, 8500, 2600, 279, 100, 400, 100, 400>>,
    <<8400, 3800, 314, 100, 100, 100, 200, 8500, 3800, 279, 100, 500, 100, 500>>,
    <<8400, 4800, 314, 100, 100, 100, 200, 8500, 4800, 279, 50, 50, 50, 200>>,
    <<8400, 5400, 314, 100, 100, 100, 200, 8500, 5400, 279, 20, 50, 20, 200>>,
    <<8400, 6000, 314, 100, 100, 100, 200, 8700, 6000, 279, 300, 100, 300, 100>>,
    <<8400, 6600, 314, 100, 100, 100, 200, 8800, 6600, 279, 400, 100, 400, 100>>,
    <<8400, 7400, 314, 100, 100, 100, 200, 8900, 7400, 279, 500, 100, 500, 100>>,
    <<9600, 400, 314, 100, 100, 100, 200, 9700, 400, 262, 100, 50, 100, 200>>,
    <<9600, 1000, 314, 100, 100, 100, 200, 9700, 1000, 262, 100, 50, 100, 200>>,
    <<9600, 1400, 314, 100, 100, 100, 200, 9700, 1400, 262, 100, 50, 50, 50>>,
    <<9600, 1800, 314, 100, 100, 100, 200, 9700, 1800, 262, 100, 50, 30, 30>>,
    <<9600, 2600, 314, 100, 100, 100, 200, 9700, 2600, 262, 100, 400, 100, 400>>,
    <<9600, 3800, 314, 100, 100, 100, 200, 9700, 3800, 262, 100, 500, 100, 500>>,
    <<9600, 4800, 314, 100, 100, 100, 200, 9700, 4800, 262, 50, 50, 50, 200>>,
    <<9600, 5400, 314, 100, 100, 100, 200, 9700, 5400, 262, 20, 50, 20, 200>>,
    <<9600, 6000, 314, 100, 100, 100, 200, 9900, 6000, 262, 300, 100, 300, 100>>,
    <<9600, 6600, 314, 100, 100, 100, 200, 10000, 6600, 262, 400, 100, 400, 100>>,
    <<9600, 7400, 314, 100, 100, 100, 200, 10000, 7400, 262, 500, 100, 500, 100>>,
    <<10800, 400, 236, 100, 100, 100, 200, 10900, 400, 236, 100, 50, 100, 200>>,
    <<10800, 1000, 236, 100, 100, 100, 200, 10900, 1000, 236, 100, 50, 100, 200>>,
    <<10800, 1400, 236, 100, 100, 100, 200, 10900, 1400, 236, 100, 50, 50, 50>>,
    <<10800, 1800, 236, 100, 100, 100, 200, 10900, 1800, 236, 100, 50, 30, 30>>,
    <<10800, 2600, 236, 100, 100, 100, 200, 10900, 2600, 236, 100, 400, 100, 400>>,
    <<10800, 3800, 236, 100, 100, 100, 200, 10900, 3800, 236, 100, 500, 100, 500>>,
    <<10800, 4800, 236, 100, 100, 100, 200, 10900, 4800, 236, 50, 50, 50, 200>>,
    <<10800, 5400, 236, 100, 100, 100, 200, 10900, 5400, 236, 20, 50, 20, 200>>,
    <<10800, 6000, 236, 100, 100, 100, 200, 10850, 6000, 236, 300, 100, 300, 100>>,
    <<10800, 6600, 236, 100, 100, 100, 200, 10950, 6600, 236, 400, 100, 400, 100>>,
    <<10800, 7400, 236, 100, 100, 100, 200, 11050, 7400, 236, 500, 100, 500, 100>>,
    <<12000, 400, 236, 100, 100, 100, 200, 12100, 400, 218, 100, 50, 100, 200>>,
    <<12000, 1000, 236, 100, 100, 100, 200, 12100, 1000, 218, 100, 50, 100, 200>>,
    <<12000, 1400, 236, 100, 100, 100, 200, 12100, 1400, 218, 100, 50, 50, 50>>,
    <<12000, 1800, 236, 100, 100, 100, 200, 12100, 1800, 218, 100, 50, 30, 30>>,
    <<12000, 2600, 236, 100, 100, 100, 200, 12100, 2600, 218, 100, 400, 100, 400>>,
    <<12000, 3800, 236, 100, 100, 100, 200, 12100, 3800, 218, 100, 500, 100, 500>>,
    <<12000, 4800, 236, 100, 100, 100, 200, 12100, 4800, 218, 50, 50, 50, 200>>,
    <<12000, 5400, 236, 100, 100, 100, 200, 12100, 5400, 218, 20, 50, 20, 200>>,
    <<12000, 6000, 236, 100, 100, 100, 200, 12030, 6000, 218, 300, 100, 300, 100>>,
    <<12000, 6600, 236, 100, 100, 100, 200, 12130, 6600, 218, 400, 100, 400, 100>>,
    <<12000, 7400, 236, 100, 100, 100, 200, 12230, 7400, 218, 500, 100, 500, 100>>,
    <<13200, 400, 236, 100, 100, 100, 200, 13300, 400, 201, 100, 50, 100, 200>>,
    <<13200, 1000, 236, 100, 100, 100, 200, 13300, 1000, 201, 100, 50, 100, 200>>,
    <<13200, 1400, 236, 100, 100, 100, 200, 13300, 1400, 201, 100, 50, 50, 50>>,
    <<13200, 1800, 236, 100, 100, 100, 200, 13300, 1800, 201, 100, 50, 30, 30>>,
    <<13200, 2600, 236, 100, 100, 100, 200, 13300, 2600, 201, 100, 400, 100, 400>>,
    <<13200, 3800, 236, 100, 100, 100, 200, 13300, 3800, 201, 100, 500, 100, 500>>,
    <<13200, 4800, 236, 100, 100, 100, 200, 13300, 4800, 201, 50, 50, 50, 200>>,
    <<13200, 5400, 236, 100, 100, 100, 200, 13300, 5400, 201, 20, 50, 20, 200>>,
    <<13200, 6000, 236, 100, 100, 100, 200, 13230, 6000, 201, 300, 100, 300, 100>>,
    <<13200, 6600, 236, 100, 100, 100, 200, 13330, 6600, 201, 400, 100, 400, 100>>,
    <<13200, 7400, 236, 100, 100, 100, 200, 13430, 7400, 201, 500, 100, 500, 100>>,
    <<14400, 400, 236, 100, 100, 100, 200, 14500, 400, 183, 100, 50, 100, 200>>,
    <<14400, 1000, 236, 100, 100, 100, 200, 14500, 1000, 183, 100, 50, 100, 200>>,
    <<14400, 1400, 236, 100, 100, 100, 200, 14500, 1400, 183, 100, 50, 50, 50>>,
    <<14400, 1800, 236, 100, 100, 100, 200, 14500, 1800, 183, 100, 50, 30, 30>>,
    <<14400, 2600, 236, 100, 100, 100, 200, 14500, 2600, 183, 100, 400, 100, 400>>,
    <<14400, 3800, 236, 100, 100, 100, 200, 14500, 3800, 183, 100, 500, 100, 500>>,
    <<14400, 4800, 236, 100, 100, 100, 200, 14500, 4800, 183, 50, 50, 50, 200>>,
    <<14400, 5400, 236, 100, 100, 100, 200, 14500, 5400, 183, 20, 50, 20, 200>>,
    <<14400, 6000, 236, 100, 100, 100, 200, 14430, 6000, 183, 300, 100, 300, 100>>,
    <<14400, 6600, 236, 100, 100, 100, 200, 14530, 6600, 183, 400, 100, 400, 100>>,
    <<14400, 7400, 236, 100, 100, 100, 200, 14630, 7400, 183, 500, 100, 500, 100>>,
    <<15600, 400, 157, 100, 100, 100, 200, 15700, 350, 157, 100, 50, 100, 200>>,
    <<15600, 1000, 157, 100, 100, 100, 200, 15700, 950, 157, 100, 50, 100, 200>>,
    <<15600, 1400, 157, 100, 100, 100, 200, 15700, 1350, 157, 100, 50, 50, 50>>,
    <<15600, 1800, 157, 100, 100, 100, 200, 15700, 1750, 157, 100, 50, 30, 30>>,
    <<15600, 2600, 157, 100, 100, 100, 200, 15700, 2550, 157, 100, 400, 100, 400>>,
    <<15600, 3800, 157, 100, 100, 100, 200, 15700, 3750, 157, 100, 500, 100, 500>>,
    <<15600, 4800, 157, 100, 100, 100, 200, 15700, 4800, 157, 50, 50, 50, 200>>,
    <<15600, 5400, 157, 100, 100, 100, 200, 15700, 5400, 157, 20, 50, 20, 200>>,
    <<15600, 6000, 157, 100, 100, 100, 200, 15630, 6000, 157, 300, 100, 300, 100>>,
    <<15600, 6600, 157, 100, 100, 100, 200, 15730, 6600, 157, 400, 100, 400, 100>>,
    <<15600, 7400, 157, 100, 100, 100, 200, 15750, 7400, 157, 500, 100, 500, 100>>,
    <<16800, 400, 157, 100, 100, 100, 200, 16900, 400, 140, 100, 50, 100, 200>>,
    <<16800, 1000, 157, 100, 100, 100, 200, 16900, 1000, 140, 100, 50, 100, 200>>,
    <<16800, 1400, 157, 100, 100, 100, 200, 16900, 1400, 140, 100, 50, 50, 50>>,
    <<16800, 1800, 157, 100, 100, 100, 200, 16900, 1800, 140, 100, 50, 30, 30>>,
    <<16800, 2600, 157, 100, 100, 100, 200, 16900, 2600, 140, 100, 400, 100, 400>>,
    <<16800, 3800, 157, 100, 100, 100, 200, 16900, 3800, 140, 100, 500, 100, 500>>,
    <<16800, 4800, 157, 100, 100, 100, 200, 16900, 4800, 140, 50, 50, 50, 200>>,
    <<16800, 5400, 157, 100, 100, 100, 200, 16900, 5400, 140, 20, 50, 20, 200>>,
    <<16800, 6000, 157, 100, 100, 100, 200, 16800, 6000, 140, 300, 100, 300, 100>>,
    <<16800, 6600, 157, 100, 100, 100, 200, 16900, 6600, 140, 400, 100, 400, 100>>,
    <<16800, 7400, 157, 100, 100, 100, 200, 17000, 7400, 140, 500, 100, 500, 100>>,
    <<18000, 400, 157, 100, 100, 100, 200, 18100, 400, 122, 100, 50, 100, 200>>,
    <<18000, 1000, 157, 100, 100, 100, 200, 18100, 1000, 122, 100, 50, 100, 200>>,
    <<18000, 1400, 157, 100, 100, 100, 200, 18100, 1400, 122, 100, 50, 50, 50>>,
    <<18000, 1800, 157, 100, 100, 100, 200, 18100, 1800, 122, 100, 50, 30, 30>>,
    <<18000, 2600, 157, 100, 100, 100, 200, 18100, 2600, 122, 100, 400, 100, 400>>,
    <<18000, 3800, 157, 100, 100, 100, 200, 18100, 3800, 122, 100, 500, 100, 500>>,
    <<18000, 4800, 157, 100, 100, 100, 200, 18100, 4800, 122, 50, 50, 50, 200>>,
    <<18000, 5400, 157, 100, 100, 100, 200, 18100, 5400, 122, 20, 50, 20, 200>>,
    <<18000, 6000, 157, 100, 100, 100, 200, 18000, 6000, 122, 300, 100, 300, 100>>,
    <<18000, 6600, 157, 100, 100, 100, 200, 18100, 6600, 122, 400, 100, 400, 100>>,
    <<18000, 7400, 157, 100, 100, 100, 200, 18200, 7400, 122, 500, 100, 500, 100>>,
    <<19200, 400, 157, 100, 100, 100, 200, 19300, 400, 105, 100, 50, 100, 200>>,
    <<19200, 1000, 157, 100, 100, 100, 200, 19300, 1000, 105, 100, 50, 100, 200>>,
    <<19200, 1400, 157, 100, 100, 100, 200, 19300, 1400, 105, 100, 50, 50, 50>>,
    <<19200, 1800, 157, 100, 100, 100, 200, 19300, 1800, 105, 100, 50, 30, 30>>,
    <<19200, 2600, 157, 100, 100, 100, 200, 19300, 2600, 105, 100, 400, 100, 400>>,
    <<19200, 3800, 157, 100, 100, 100, 200, 19300, 3800, 105, 100, 500, 100, 500>>,
    <<19200, 4800, 157, 100, 100, 100, 200, 19300, 4800, 105, 50, 50, 50, 200>>,
    <<19200, 5400, 157, 100, 100, 100, 200, 19300, 5400, 105, 20, 50, 20, 200>>,
    <<19200, 6000, 157, 100, 100, 100, 200, 19200, 6000, 105, 300, 100, 300, 100>>,
    <<19200, 6600, 157, 100, 100, 100, 200, 19300, 6600, 105, 400, 100, 400, 100>>,
    <<19200, 7400, 157, 100, 100, 100, 200, 19400, 7400, 105, 500, 100, 500, 100>>,
    <<20400, 400, 79, 100, 100, 100, 200, 20500, 400, 79, 100, 50, 100, 200>>,
    <<20400, 1000, 79, 100, 100, 100, 200, 20500, 1000, 79, 100, 50, 100, 200>>,
    <<20400, 1400, 79, 100, 100, 100, 200, 20500, 1400, 79, 100, 50, 50, 50>>,
    <<20400, 1800, 79, 100, 100, 100, 200, 20500, 1800, 79, 100, 50, 30, 30>>,
    <<20400, 2600, 79, 100, 100, 100, 200, 20500, 2600, 79, 100, 400, 100, 400>>,
    <<20400, 3800, 79, 100, 100, 100, 200, 20500, 3800, 79, 100, 500, 100, 500>>,
    <<20400, 4800, 79, 100, 100, 100, 200, 20500, 4800, 79, 50, 50, 50, 200>>,
    <<20400, 5400, 79, 100, 100, 100, 200, 20500, 5400, 79, 20, 50, 20, 200>>,
    <<20400, 6000, 79, 100, 100, 100, 200, 20430, 6000, 79, 300, 100, 300, 100>>,
    <<20400, 6600, 79, 100, 100, 100, 200, 20530, 6600, 79, 400, 100, 400, 100>>,
    <<20400, 7400, 79, 100, 100, 100, 200, 20630, 7400, 79, 500, 100, 500, 100>>,
    <<21600, 400, 79, 100, 100, 100, 200, 21700, 400, 61, 100, 50, 100, 200>>,
    <<21600, 1000, 79, 100, 100, 100, 200, 21700, 1000, 61, 100, 50, 100, 200>>,
    <<21600, 1400, 79, 100, 100, 100, 200, 21700, 1400, 61, 100, 50, 50, 50>>,
    <<21600, 1800, 79, 100, 100, 100, 200, 21700, 1800, 61, 100, 50, 30, 30>>,
    <<21600, 2600, 79, 100, 100, 100, 200, 21700, 2600, 61, 100, 400, 100, 400>>,
    <<21600, 3800, 79, 100, 100, 100, 200, 21700, 3800, 61, 100, 500, 100, 500>>,
    <<21600, 4800, 79, 100, 100, 100, 200, 21700, 4800, 61, 50, 50, 50, 200>>,
    <<21600, 5400, 79, 100, 100, 100, 200, 21700, 5400, 61, 20, 50, 20, 200>>,
    <<21600, 6000, 79, 100, 100, 100, 200, 21630, 6000, 61, 300, 100, 300, 100>>,
    <<21600, 6600, 79, 100, 100, 100, 200, 21730, 6600, 61, 400, 100, 400, 100>>,
    <<21600, 7400, 79, 100, 100, 100, 200, 21830, 7400, 61, 500, 100, 500, 100>>,
    <<22800, 400, 79, 100, 100, 100, 200, 22900, 400, 44, 100, 50, 100, 200>>,
    <<22800, 1000, 79, 100, 100, 100, 200, 22900, 1000, 44, 100, 50, 100, 200>>,
    <<22800, 1400, 79, 100, 100, 100, 200, 22900, 1400, 44, 100, 50, 50, 50>>,
    <<22800, 1800, 79, 100, 100, 100, 200, 22900, 1800, 44, 100, 50, 30, 30>>,
    <<22800, 2600, 79, 100, 100, 100, 200, 22900, 2600, 44, 100, 400, 100, 400>>,
    <<22800, 3800, 79, 100, 100, 100, 200, 22900, 3800, 44, 100, 500, 100, 500>>,
    <<22800, 4800, 79, 100, 100, 100, 200, 22900, 4800, 44, 50, 50, 50, 200>>,
    <<22800, 5400, 79, 100, 100, 100, 200, 22630, 5400, 44, 20, 50, 20, 200>>,
    <<22800, 6000, 79, 100, 100, 100, 200, 22830, 6000, 44, 300, 100, 300, 100>>,
    <<22800, 6600, 79, 100, 100, 100, 200, 22930, 6600, 44, 400, 100, 400, 100>>,
    <<22800, 7400, 79, 100, 100, 100, 200, 23030, 7400, 44, 500, 100, 500, 100>>,
    <<24000, 400, 79, 100, 100, 100, 200, 24100, 400, 26, 100, 50, 100, 200>>,
    <<24000, 1000, 79, 100, 100, 100, 200, 24100, 1000, 26, 100, 50, 100, 200>>,
    <<24000, 1400, 79, 100, 100, 100, 200, 24100, 1400, 26, 100, 50, 50, 50>>,
    <<24000, 1800, 79, 100, 100, 100, 200, 24100, 1800, 26, 100, 50, 30, 30>>,
    <<24000, 2600, 79, 100, 100, 100, 200, 24100, 2600, 26, 100, 400, 100, 400>>,
    <<24000, 3800, 79, 100, 100, 100, 200, 24100, 3800, 26, 100, 500, 100, 500>>,
    <<24000, 4800, 79, 100, 100, 100, 200, 24100, 4800, 26, 50, 50, 50, 200>>,
    <<24000, 5400, 79, 100, 100, 100, 200, 24000, 5400, 26, 20, 50, 20, 200>>,
    <<24000, 6000, 79, 100, 100, 100, 200, 24030, 6000, 26, 300, 100, 300, 100>>,
    <<24000, 6600, 79, 100, 100, 100, 200, 24130, 6600, 26, 400, 100, 400, 100>>,
    <<24000, 7400, 79, 100, 100, 100, 200, 24230, 7400, 26, 500, 100, 500, 100>>,
    <<25200, 400, 0, 100, 100, 100, 200, 25300, 400, 17, 100, 50, 100, 200>>,
    <<25200, 1000, 0, 100, 100, 100, 200, 25300, 1000, 17, 100, 50, 100, 200>>,
    <<25200, 1400, 0, 100, 100, 100, 200, 25300, 1400, 17, 100, 50, 50, 50>>,
    <<25200, 1800, 0, 100, 100, 100, 200, 25300, 1800, 17, 100, 50, 30, 30>>,
    <<25200, 2600, 0, 100, 100, 100, 200, 25300, 2600, 17, 100, 400, 100, 400>>,
    <<25200, 3800, 0, 100, 100, 100, 200, 25300, 3800, 17, 100, 500, 100, 500>>,
    <<25200, 4800, 0, 100, 100, 100, 200, 25300, 4800, 17, 50, 50, 50, 200>>,
    <<25200, 5400, 0, 100, 100, 100, 200, 25300, 5400, 17, 20, 50, 20, 200>>,
    <<25200, 6000, 0, 100, 100, 100, 200, 25500, 6000, 17, 300, 100, 300, 100>>,
    <<25200, 6600, 0, 100, 100, 100, 200, 25600, 6600, 17, 400, 100, 400, 100>>,
    <<25200, 7400, 0, 100, 100, 100, 200, 25700, 7400, 17, 500, 100, 500, 100>>,
    <<26400, 400, 0, 100, 100, 100, 200, 26500, 400, 35, 100, 50, 100, 200>>,
    <<26400, 1000, 0, 100, 100, 100, 200, 26500, 1000, 35, 100, 50, 100, 200>>,
    <<26400, 1400, 0, 100, 100, 100, 200, 26500, 1400, 35, 100, 50, 50, 50>>,
    <<26400, 1800, 0, 100, 100, 100, 200, 26500, 1800, 35, 100, 50, 30, 30>>,
    <<26400, 2600, 0, 100, 100, 100, 200, 26500, 2600, 35, 100, 400, 100, 400>>,
    <<26400, 3800, 0, 100, 100, 100, 200, 26500, 3800, 35, 100, 500, 100, 500>>,
    <<26400, 4800, 0, 100, 100, 100, 200, 26500, 4800, 35, 50, 50, 50, 200>>,
    <<26400, 5400, 0, 100, 100, 100, 200, 26500, 5400, 35, 20, 50, 20, 200>>,
    <<26400, 6000, 0, 100, 100, 100, 200, 26700, 6000, 35, 300, 100, 300, 100>>,
    <<26400, 6600, 0, 100, 100, 100, 200, 26800, 6600, 35, 400, 100, 400, 100>>,
    <<26400, 7400, 0, 100, 100, 100, 200, 26900, 7400, 35, 500, 100, 500, 100>>,
    <<27600, 400, 0, 100, 100, 100, 200, 27700, 400, 52, 100, 50, 100, 200>>,
    <<27600, 1000, 0, 100, 100, 100, 200, 27700, 1000, 52, 100, 50, 100, 200>>,
    <<27600, 1400, 0, 100, 100, 100, 200, 27700, 1400, 52, 100, 50, 50, 50>>,
    <<27600, 1800, 0, 100, 100, 100, 200, 27700, 1800, 52, 100, 50, 30, 30>>,
    <<27600, 2600, 0, 100, 100, 100, 200, 27700, 2600, 52, 100, 400, 100, 400>>,
    <<27600, 3800, 0, 100, 100, 100, 200, 27700, 3800, 52, 100, 500, 100, 500>>,
    <<27600, 4800, 0, 100, 100, 100, 200, 27700, 4800, 52, 50, 50, 50, 200>>,
    <<27600, 5400, 0, 100, 100, 100, 200, 27700, 5400, 52, 20, 50, 20, 200>>,
    <<27600, 6000, 0, 100, 100, 100, 200, 27900, 6000, 52, 300, 100, 300, 100>>,
    <<27600, 6600, 0, 100, 100, 100, 200, 28000, 6600, 52, 400, 100, 400, 100>>,
    <<27600, 7400, 0, 100, 100, 100, 200, 28100, 7400, 52, 500, 100, 500, 100>>,
    <<28800, 400, 79, 100, 100, 100, 200, 28900, 400, 79, 100, 50, 100, 200>>,
    <<28800, 1000, 79, 100, 100, 100, 200, 28900, 1000, 79, 100, 50, 100, 200>>,
    <<28800, 1400, 79, 100, 100, 100, 200, 28900, 1400, 79, 100, 50, 50, 50>>,
    <<28800, 1800, 79, 100, 100, 100, 200, 28900, 1800, 79, 100, 50, 30, 30>>,
    <<28800, 2600, 79, 100, 100, 100, 200, 28900, 2600, 79, 100, 400, 100, 400>>,
    <<28800, 3800, 79, 100, 100, 100, 200, 28900, 3800, 79, 100, 500, 100, 500>>,
    <<28800, 4800, 79, 100, 100, 100, 200, 28900, 4800, 79, 50, 50, 50, 200>>,
    <<28800, 5400, 79, 100, 100, 100, 200, 28900, 5400, 79, 20, 50, 20, 200>>,
    <<28800, 6000, 79, 100, 100, 100, 200, 29100, 6000, 79, 300, 100, 300, 100>>,
    <<28800, 6600, 79, 100, 100, 100, 200, 29050, 6600, 79, 400, 100, 400, 100>>,
    <<28800, 7400, 79, 100, 100, 100, 200, 29150, 7400, 79, 500, 100, 500, 100>>,
    <<30000, 400, 79, 100, 100, 100, 200, 30100, 400, 96, 100, 50, 100, 200>>,
    <<30000, 1000, 79, 100, 100, 100, 200, 30100, 1000, 96, 100, 50, 100, 200>>,
    <<30000, 1400, 79, 100, 100, 100, 200, 30100, 1400, 96, 100, 50, 50, 50>>,
    <<30000, 1800, 79, 100, 100, 100, 200, 30100, 1800, 96, 100, 50, 30, 30>>,
    <<30000, 2600, 79, 100, 100, 100, 200, 30100, 2600, 96, 100, 400, 100, 400>>,
    <<30000, 3800, 79, 100, 100, 100, 200, 30100, 3800, 96, 100, 500, 100, 500>>,
    <<30000, 4800, 79, 100, 100, 100, 200, 30100, 4800, 96, 50, 50, 50, 200>>,
    <<30000, 5400, 79, 100, 100, 100, 200, 30100, 5400, 96, 20, 50, 20, 200>>,
    <<30000, 6000, 79, 100, 100, 100, 200, 30300, 6000, 96, 300, 100, 300, 100>>,
    <<30000, 6600, 79, 100, 100, 100, 200, 30130, 6600, 96, 400, 100, 400, 100>>,
    <<30000, 7400, 79, 100, 100, 100, 200, 30230, 7400, 96, 500, 100, 500, 100>>,
    <<31200, 400, 79, 100, 100, 100, 200, 31300, 400, 113, 100, 50, 100, 200>>,
    <<31200, 1000, 79, 100, 100, 100, 200, 31300, 1000, 113, 100, 50, 100, 200>>,
    <<31200, 1400, 79, 100, 100, 100, 200, 31300, 1400, 113, 100, 50, 50, 50>>,
    <<31200, 1800, 79, 100, 100, 100, 200, 31300, 1800, 113, 100, 50, 30, 30>>,
    <<31200, 2600, 79, 100, 100, 100, 200, 31300, 2600, 113, 100, 400, 100, 400>>,
    <<31200, 3800, 79, 100, 100, 100, 200, 31300, 3800, 113, 100, 500, 100, 500>>,
    <<31200, 4800, 79, 100, 100, 100, 200, 31300, 4800, 113, 50, 50, 50, 200>>,
    <<31200, 5400, 79, 100, 100, 100, 200, 31300, 5400, 113, 20, 50, 20, 200>>,
    <<31200, 6000, 79, 100, 100, 100, 200, 31500, 6000, 113, 300, 100, 300, 100>>,
    <<31200, 6600, 79, 100, 100, 100, 200, 31330, 6600, 113, 400, 100, 400, 100>>,
    <<31200, 7400, 79, 100, 100, 100, 200, 31430, 7400, 113, 500, 100, 500, 100>>,
    <<32400, 400, 79, 100, 100, 100, 200, 32500, 400, 131, 100, 50, 100, 200>>,
    <<32400, 1000, 79, 100, 100, 100, 200, 32500, 1000, 131, 100, 50, 100, 200>>,
    <<32400, 1400, 79, 100, 100, 100, 200, 32500, 1400, 131, 100, 50, 50, 50>>,
    <<32400, 1800, 79, 100, 100, 100, 200, 32500, 1800, 131, 100, 50, 30, 30>>,
    <<32400, 2600, 79, 100, 100, 100, 200, 32500, 2600, 131, 100, 400, 100, 400>>,
    <<32400, 3800, 79, 100, 100, 100, 200, 32500, 3800, 131, 100, 500, 100, 500>>,
    <<32400, 4800, 79, 100, 100, 100, 200, 32500, 4800, 131, 50, 50, 50, 200>>,
    <<32400, 5400, 79, 100, 100, 100, 200, 32500, 5400, 131, 20, 50, 20, 200>>,
    <<32400, 6000, 79, 100, 100, 100, 200, 32700, 6000, 131, 300, 100, 300, 100>>,
    <<32400, 6600, 79, 100, 100, 100, 200, 32530, 6600, 131, 400, 100, 400, 100>>,
    <<32400, 7400, 79, 100, 100, 100, 200, 32630, 7400, 131, 500, 100, 500, 100>>,
    <<33600, 400, 157, 100, 100, 100, 200, 33700, 350, 157, 100, 50, 100, 200>>,
    <<33600, 1000, 157, 100, 100, 100, 200, 33700, 950, 157, 100, 50, 100, 200>>,
    <<33600, 1400, 157, 100, 100, 100, 200, 33700, 1350, 157, 100, 50, 50, 50>>,
    <<33600, 1800, 157, 100, 100, 100, 200, 33700, 1750, 157, 100, 50, 30, 30>>,
    <<33600, 2600, 157, 100, 100, 100, 200, 33700, 2550, 157, 100, 400, 100, 400>>,
    <<33600, 3800, 157, 100, 100, 100, 200, 33700, 3750, 157, 100, 500, 100, 500>>,
    <<33600, 4800, 157, 100, 100, 100, 200, 33700, 4800, 157, 50, 50, 50, 200>>,
    <<33600, 5400, 157, 100, 100, 100, 200, 33700, 5400, 157, 20, 50, 20, 200>>,
    <<33600, 6000, 157, 100, 100, 100, 200, 33830, 6000, 157, 300, 100, 300, 100>>,
    <<33600, 6600, 157, 100, 100, 100, 200, 33730, 6600, 157, 400, 100, 400, 100>>,
    <<33600, 7400, 157, 100, 100, 100, 200, 33830, 7400, 157, 500, 100, 500, 100>>,
    <<34800, 400, 157, 100, 100, 100, 200, 34900, 400, 175, 100, 50, 100, 200>>,
    <<34800, 1000, 157, 100, 100, 100, 200, 34900, 1000, 175, 100, 50, 100, 200>>,
    <<34800, 1400, 157, 100, 100, 100, 200, 34900, 1400, 175, 100, 50, 50, 50>>,
    <<34800, 1800, 157, 100, 100, 100, 200, 34900, 1800, 175, 100, 50, 30, 30>>,
    <<34800, 2600, 157, 100, 100, 100, 200, 34900, 2600, 175, 100, 400, 100, 400>>,
    <<34800, 3800, 157, 100, 100, 100, 200, 34900, 3800, 175, 100, 500, 100, 500>>,
    <<34800, 4800, 157, 100, 100, 100, 200, 34900, 4800, 175, 50, 50, 50, 200>>,
    <<34800, 5400, 157, 100, 100, 100, 200, 34900, 5400, 175, 20, 50, 20, 200>>,
    <<34800, 6000, 157, 100, 100, 100, 200, 35100, 6000, 175, 300, 100, 300, 100>>,
    <<34800, 6600, 157, 100, 100, 100, 200, 34930, 6600, 175, 400, 100, 400, 100>>,
    <<34800, 7400, 157, 100, 100, 100, 200, 35030, 7400, 175, 500, 100, 500, 100>>,
    <<36000, 400, 157, 100, 100, 100, 200, 36100, 400, 192, 100, 50, 100, 200>>,
    <<36000, 1000, 157, 100, 100, 100, 200, 36100, 1000, 192, 100, 50, 100, 200>>,
    <<36000, 1400, 157, 100, 100, 100, 200, 36100, 1400, 192, 100, 50, 50, 50>>,
    <<36000, 1800, 157, 100, 100, 100, 200, 36100, 1800, 192, 100, 50, 30, 30>>,
    <<36000, 2600, 157, 100, 100, 100, 200, 36100, 2600, 192, 100, 400, 100, 400>>,
    <<36000, 3800, 157, 100, 100, 100, 200, 36100, 3800, 192, 100, 500, 100, 500>>,
    <<36000, 4800, 157, 100, 100, 100, 200, 36100, 4800, 192, 50, 50, 50, 200>>,
    <<36000, 5400, 157, 100, 100, 100, 200, 36100, 5400, 192, 20, 50, 20, 200>>,
    <<36000, 6000, 157, 100, 100, 100, 200, 36300, 6000, 192, 300, 100, 300, 100>>,
    <<36000, 6600, 157, 100, 100, 100, 200, 36130, 6600, 192, 400, 100, 400, 100>>,
    <<36000, 7400, 157, 100, 100, 100, 200, 36230, 7400, 192, 500, 100, 500, 100>>,
    <<37200, 400, 157, 100, 100, 100, 200, 37300, 400, 209, 100, 50, 100, 200>>,
    <<37200, 1000, 157, 100, 100, 100, 200, 37300, 1000, 209, 100, 50, 100, 200>>,
    <<37200, 1400, 157, 100, 100, 100, 200, 37300, 1400, 209, 100, 50, 50, 50>>,
    <<37200, 1800, 157, 100, 100, 100, 200, 37300, 1800, 209, 100, 50, 30, 30>>,
    <<37200, 2600, 157, 100, 100, 100, 200, 37300, 2600, 209, 100, 400, 100, 400>>,
    <<37200, 3800, 157, 100, 100, 100, 200, 37300, 3800, 209, 100, 500, 100, 500>>,
    <<37200, 4800, 157, 100, 100, 100, 200, 37300, 4800, 209, 50, 50, 50, 200>>,
    <<37200, 5400, 157, 100, 100, 100, 200, 37300, 5400, 209, 20, 50, 20, 200>>,
    <<37200, 6000, 157, 100, 100, 100, 200, 37500, 6000, 209, 300, 100, 300, 100>>,
    <<37200, 6600, 157, 100, 100, 100, 200, 37330, 6600, 209, 400, 100, 400, 100>>,
    <<37200, 7400, 157, 100, 100, 100, 200, 37430, 7400, 209, 500, 100, 500, 100>>,
    <<38400, 400, 236, 100, 100, 100, 200, 38500, 400, 236, 100, 50, 100, 200>>,
    <<38400, 1000, 236, 100, 100, 100, 200, 38500, 1000, 236, 100, 50, 100, 200>>,
    <<38400, 1400, 236, 100, 100, 100, 200, 38500, 1400, 236, 100, 50, 50, 50>>,
    <<38400, 1800, 236, 100, 100, 100, 200, 38500, 1800, 236, 100, 50, 30, 30>>,
    <<38400, 2600, 236, 100, 100, 100, 200, 38500, 2600, 236, 100, 400, 100, 400>>,
    <<38400, 3800, 236, 100, 100, 100, 200, 38500, 3800, 236, 100, 500, 100, 500>>,
    <<38400, 4800, 236, 100, 100, 100, 200, 38500, 4800, 236, 50, 50, 50, 200>>,
    <<38400, 5400, 236, 100, 100, 100, 200, 38500, 5400, 236, 20, 50, 20, 200>>,
    <<38400, 6000, 236, 100, 100, 100, 200, 38700, 6000, 236, 300, 100, 300, 100>>,
    <<38400, 6600, 236, 100, 100, 100, 200, 38600, 6600, 236, 400, 100, 400, 100>>,
    <<38400, 7400, 236, 100, 100, 100, 200, 38700, 7400, 236, 500, 100, 500, 100>>,
    <<39600, 400, 236, 100, 100, 100, 200, 39700, 400, 253, 100, 50, 100, 200>>,
    <<39600, 1000, 236, 100, 100, 100, 200, 39700, 1000, 253, 100, 50, 100, 200>>,
    <<39600, 1400, 236, 100, 100, 100, 200, 39700, 1400, 253, 100, 50, 50, 50>>,
    <<39600, 1800, 236, 100, 100, 100, 200, 39700, 1800, 253, 100, 50, 30, 30>>,
    <<39600, 2600, 236, 100, 100, 100, 200, 39700, 2600, 253, 100, 400, 100, 400>>,
    <<39600, 3800, 236, 100, 100, 100, 200, 39700, 3800, 253, 100, 500, 100, 500>>,
    <<39600, 4800, 236, 100, 100, 100, 200, 39700, 4800, 253, 50, 50, 50, 200>>,
    <<39600, 5400, 236, 100, 100, 100, 200, 39700, 5400, 253, 20, 50, 20, 200>>,
    <<39600, 6000, 236, 100, 100, 100, 200, 39900, 6000, 253, 300, 100, 300, 100>>,
    <<39600, 6600, 236, 100, 100, 100, 200, 40000, 6600, 253, 400, 100, 400, 100>>,
    <<39600, 7400, 236, 100, 100, 100, 200, 40100, 7400, 253, 500, 100, 500, 100>>,
    <<40800, 400, 236, 100, 100, 100, 200, 40900, 400, 271, 100, 50, 100, 200>>,
    <<40800, 1000, 236, 100, 100, 100, 200, 40900, 1000, 271, 100, 50, 100, 200>>,
    <<40800, 1400, 236, 100, 100, 100, 200, 40900, 1400, 271, 100, 50, 50, 50>>,
    <<40800, 1800, 236, 100, 100, 100, 200, 40900, 1800, 271, 100, 50, 30, 30>>,
    <<40800, 2600, 236, 100, 100, 100, 200, 40900, 2600, 271, 100, 400, 100, 400>>,
    <<40800, 3800, 236, 100, 100, 100, 200, 40900, 3800, 271, 100, 500, 100, 500>>,
    <<40800, 4800, 236, 100, 100, 100, 200, 40900, 4800, 271, 50, 50, 50, 200>>,
    <<40800, 5400, 236, 100, 100, 100, 200, 40900, 5400, 271, 20, 50, 20, 200>>,
    <<40800, 6000, 236, 100, 100, 100, 200, 41100, 6000, 271, 300, 100, 300, 100>>,
    <<40800, 6600, 236, 100, 100, 100, 200, 41200, 6600, 271, 400, 100, 400, 100>>,
    <<40800, 7400, 236, 100, 100, 100, 200, 41300, 7400, 271, 500, 100, 500, 100>>,
    <<42000, 400, 236, 100, 100, 100, 200, 42100, 400, 288, 100, 50, 100, 200>>,
    <<42000, 1000, 236, 100, 100, 100, 200, 42100, 1000, 288, 100, 50, 100, 200>>,
    <<42000, 1400, 236, 100, 100, 100, 200, 42100, 1400, 288, 100, 50, 50, 50>>,
    <<42000, 1800, 236, 100, 100, 100, 200, 42100, 1800, 288, 100, 50, 30, 30>>,
    <<42000, 2600, 236, 100, 100, 100, 200, 42100, 2600, 288, 100, 400, 100, 400>>,
    <<42000, 3800, 236, 100, 100, 100, 200, 42100, 3800, 288, 100, 500, 100, 500>>,
    <<42000, 4800, 236, 100, 100, 100, 200, 42100, 4800, 288, 50, 50, 50, 200>>,
    <<42000, 5400, 236, 100, 100, 100, 200, 42100, 5400, 288, 20, 50, 20, 200>>,
    <<42000, 6000, 236, 100, 100, 100, 200, 42300, 6000, 288, 300, 100, 300, 100>>,
    <<42000, 6600, 236, 100, 100, 100, 200, 42400, 6600, 288, 400, 100, 400, 100>>,
    <<42000, 7400, 236, 100, 100, 100, 200, 42500, 7400, 288, 500, 100, 500, 100>>
    >>

\* the columns the table and a scenario are compared in: both centers and
\* the eight extents
Compared == <<1, 2, 8, 9, 4, 5, 6, 7, 11, 12, 13, 14>>

\* a length of the generator (tenths) written with two decimals
Hundredths(v) == 10 * v

\* row k of the table agrees with scenario k
RowAgrees(k) ==
    \A j \in 1..Len(Compared) :
        Hundredths(test_cases[k][Compared[j]]) = t[k][Compared[j]]

\* C29: the reference table has one row per generated scenario, in
\* generation order: the centers of both rectangles and the eight extents
\* of every scenario equal those of the table's row of the same index, and
\* caller returns as many scenarios as the table has rows.  Each scenario
\* is compared with its row when it is appended, and all of them when
\* caller returns.
C29_ReferenceTable ==
    /\ Len(test_cases) <= Len(t)
    /\ (Generating /\ Len(test_cases) > 0) => RowAgrees(Len(test_cases))
    /\ CallerReturned =>
            /\ Len(test_cases) = Len(t)
            /\ \A k \in 1..Len(test_cases) : RowAgrees(k)

\* C29 witness: caller has returned; scenario 96 (A at heading -135 degrees,
\* preset 8, the first the if/elif chain moves by -2.5) has B's center at
\* x = 108.5 like the table's row
C29_Witness ==
    /\ CallerReturned
    /\ Len(test_cases) = Len(t)
    /\ test_cases[97][8] = test_cases[97][1] + lsx[9] - 25
    /\ Hundredths(test_cases[97][8]) = 10850
    /\ t[97][8] = 10850

=========================================================================
